---- MODULE Spec2Model ----
(***************************************************************************)
(* Sales-leaderboard mobile client (EBU).                                  *)
(*                                                                         *)
(* The backend is a remote record store with the tables `users` and        *)
(* `sales`; every handler of the client is cut at its awaits: one action   *)
(* for the synchronous segment up to the first backend call, and one       *)
(* action per backend response (success or failure).                       *)
(*                                                                         *)
(* Specifications                                                          *)
(*   Spec         two admin sessions submitting sales concurrently, with   *)
(*                backend failures                                         *)
(*   SpecSession  one admin session with every control of the home screen  *)
(*                (invalid forms, closing the modal, pull to refresh,      *)
(*                failing leaderboard fetches)                             *)
(*   SpecSeq      the submissions run one after another and every backend  *)
(*                call succeeds                                            *)
(*   SpecPure     the pure functions of the leaderboard (rank assignment,  *)
(*                zone classification) applied to bounded inputs           *)
(*   SpecAuth     registrations from two devices against the users table   *)
(***************************************************************************)
EXTENDS Integers, Sequences, FiniteSets, TLC

(***************************************************************************)
(* Bounds of the model.                                                    *)
(***************************************************************************)
\* cap on the sum of the deltas submitted over all keys
MaxTotal == 2
\* leaderboard fetches one session may have in flight
MaxInFlight == 1
\* largest connections value the zone classification is applied to
MaxZoneInput == 25
\* longest fetch result the rank assignment is applied to
MaxRows == 3
\* fetchLeaderboard calls one session starts where each call is followed
MaxFetches == 3

Sessions == {"A", "B"}

CurrentMonth == "2026-11"
PrevMonth == "2026-10"
Months == {CurrentMonth, PrevMonth}

(***************************************************************************)
(* The users table as the sales screens see it: the rows exist before the  *)
(* admin sessions start and the sales handlers never write them.           *)
(***************************************************************************)
\* a string of n copies of the character c
Rep(c, n) == [i \in 1..n |-> c]

Prefix254 == <<"+", "2", "5", "4">>

User1 == [id |-> "u1", phone_number |-> Prefix254 \o <<"7">> \o Rep("1", 8),
          id_number |-> Rep("1", 8), name |-> <<"A", "l">>,
          password |-> Rep("x", 6), is_admin |-> TRUE]
User2 == [id |-> "u2", phone_number |-> Prefix254 \o <<"7">> \o Rep("2", 8),
          id_number |-> Rep("2", 8), name |-> <<"B", "o">>,
          password |-> Rep("y", 6), is_admin |-> TRUE]

SeedUsers == {User1, User2}

(***************************************************************************)
(* Strings are sequences of one-character strings.                         *)
(* The Connections field keeps what onChangeText leaves of the typed text. *)
(***************************************************************************)
Digits == {"0", "1", "2", "3", "4", "5", "6", "7", "8", "9"}

DigitVal(c) ==
    CASE c = "0" -> 0 [] c = "1" -> 1 [] c = "2" -> 2 [] c = "3" -> 3
      [] c = "4" -> 4 [] c = "5" -> 5 [] c = "6" -> 6 [] c = "7" -> 7
      [] c = "8" -> 8 [] c = "9" -> 9

\* text.replace(/[^0-9]/g, '')
RECURSIVE numericText(_)
numericText(text) ==
    IF text = <<>> THEN <<>>
    ELSE IF Head(text) \in Digits
         THEN <<Head(text)>> \o numericText(Tail(text))
         ELSE numericText(Tail(text))

\* a JS number that may be NaN
NaN == [nan |-> TRUE, val |-> 0]
Num(n) == [nan |-> FALSE, val |-> n]

\* value of the longest prefix of decimal digits, NaN when there is none
RECURSIVE DigitsValue(_, _)
DigitsValue(str, acc) ==
    IF str = <<>> \/ Head(str) \notin Digits THEN acc
    ELSE DigitsValue(Tail(str), acc * 10 + DigitVal(Head(str)))

parseInt(str) ==
    IF str = <<>> \/ Head(str) \notin Digits THEN NaN
    ELSE Num(DigitsValue(str, 0))

(***************************************************************************)
(* A date of the date picker: a local calendar date whose UTC month may be *)
(* the month before (the first hours of the 1st in a zone east of UTC).    *)
(* toISOString() renders the UTC date.                                     *)
(***************************************************************************)
Today == [local |-> CurrentMonth, utc |-> CurrentMonth]

\* date.toISOString().slice(0, 7)
MonthYear(date) == date.utc

EmptyForm == [user_id |-> "", connections |-> <<>>, date |-> Today]

UserIds == {u.id : u \in SeedUsers}

Form(u, raw, date) == [user_id |-> u, connections |-> numericText(raw), date |-> date]

BackDated == [local |-> CurrentMonth, utc |-> PrevMonth]

\* what an admin may have entered when Submit is pressed
Forms ==
    { Form("", <<"1">>, Today),
      Form("u1", <<"a">>, Today),
      Form("u1", <<"0">>, Today),
      Form("u1", <<"a", "1">>, Today),
      Form("u1", <<"0", "2">>, Today),
      Form("u2", <<"1">>, BackDated) }

\* the forms the two concurrent sessions submit
RaceForms ==
    { Form("u1", <<"0">>, Today),
      Form("u1", <<"a", "1">>, Today),
      Form("u2", <<"1">>, BackDated) }

VARIABLES
    users,          \* backend table users
    sales,          \* backend table sales: rows [user_id, month_year, connections]
    pc,             \* per session: where handleSubmit is
    req,            \* per session: the locals of the running handleSubmit
    formData,       \* per session: the modal form
    formErrors,     \* per session: fields with a validation message
    modalVisible,
    submitting,
    isAdmin,
    leaderboard,    \* per session: the displayed ranking
    loading,
    refreshing,
    lbInFlight,     \* per session: fetchLeaderboard calls awaiting the backend
    toast,          \* per session: the notification shown last
    lbResult,       \* history: per session, how the last completed fetch ended
    path,           \* history: phases of the current or last submission
    applied,        \* history: per key, the sum of the deltas written successfully
    data,           \* SpecPure: a fetch result
    rankedData,     \* SpecPure: the ranking made of it
    zoneIn,         \* SpecPure: a connections value
    zoneOut,        \* SpecPure: its zone colour
    authPc,         \* per device: where handleRegister is
    authReq,        \* per device: the locals of the running handleRegister
    authFormData,   \* per device: the form of the auth screen
    authErrors,     \* per device: the messages of the auth screen
    authLoading,
    storage,        \* per device: AsyncStorage
    route,          \* per device: the screen shown
    loaded,         \* per device: RootLayout, the fonts are loaded
    rootRun,        \* per device: the runs of RootLayout's checkSession
    isCheckingSession,
    initialRoute,   \* per device: RootLayout's initialRoute
    homeCheck,      \* per session: where HomePage's checkSession is
    sessionLoading,
    pickerUsers,    \* per session: the users the picker of the modal lists
    profPc,         \* per session: where the running ProfilePage handler is
    profReq,        \* per session: the locals of that handler
    userProfile,    \* per session: ProfilePage's userProfile
    profForm,       \* per session: ProfilePage's formData
    profErrors,     \* per session: ProfilePage's formErrors
    updating,
    profLoading,
    editing,        \* per session: editingName and changingPassword
    fetches         \* per session: the fetchLeaderboard calls in flight, oldest first

salesVars == <<users, sales, pc, req, formData, formErrors, modalVisible, submitting,
               isAdmin, leaderboard, loading, refreshing, lbInFlight, toast, lbResult,
               path, applied>>
pureVars == <<data, rankedData, zoneIn, zoneOut>>
authVars == <<authPc, authReq, authFormData, authErrors, authLoading, storage, route>>
launchVars == <<loaded, rootRun, isCheckingSession, initialRoute>>
checkVars == <<homeCheck, sessionLoading, pickerUsers>>
profileVars == <<profPc, profReq, userProfile, profForm, profErrors, updating, profLoading,
                 editing>>
appVars == <<launchVars, checkVars, profileVars, fetches>>
vars == <<salesVars, pureVars, authVars, appVars>>


(***************************************************************************)
(* The backend: the sales table, unique on (user_id, month_year).          *)
(***************************************************************************)
Keys == UserIds \X Months

\* .from('sales').select('connections').eq('user_id', u).eq('month_year', m)
SalesMatching(tbl, u, m) == {r \in tbl : r.user_id = u /\ r.month_year = m}

\* the connections a table holds for a key, an absent record counting as 0
StoredIn(tbl, u, m) ==
    IF SalesMatching(tbl, u, m) = {} THEN 0
    ELSE (CHOOSE r \in SalesMatching(tbl, u, m) : TRUE).connections

Stored(u, m) == StoredIn(sales, u, m)

\* an upsert whose conflict key is the user alone
UpsertByUser(tbl, row) ==
    {r \in tbl : r.user_id # row.user_id} \cup {row}

\* .upsert(row, { onConflict: 'user_id,month_year' })
Upsert(tbl, row) ==
    {r \in tbl : ~(r.user_id = row.user_id /\ r.month_year = row.month_year)}
        \cup {row}

(***************************************************************************)
(* HomePage: the admin's "add sales" modal.                                *)
(***************************************************************************)
NoDate == [local |-> "", utc |-> ""]

\* String.prototype.trim on a sequence of characters
RECURSIVE trimStart(_)
trimStart(str) ==
    IF str # <<>> /\ Head(str) = " " THEN trimStart(Tail(str)) ELSE str

RECURSIVE trimEnd(_)
trimEnd(str) ==
    IF str # <<>> /\ str[Len(str)] = " "
    THEN trimEnd(SubSeq(str, 1, Len(str) - 1)) ELSE str

trim(str) == trimEnd(trimStart(str))

\* the fields validateForm puts a message on
validateFormErrors(fd) ==
    (IF fd.user_id = "" THEN {"user_id"} ELSE {})
    \cup (IF trim(fd.connections) = <<>> THEN {"connections"}
          ELSE IF parseInt(fd.connections).nan \/ parseInt(fd.connections).val < 0
               THEN {"connections"} ELSE {})
    \cup (IF fd.date = NoDate THEN {"date"} ELSE {})

NoReq == [user_id |-> "", month_year |-> "", newConnections |-> 0,
          currentConnections |-> 0, missed |-> 0]

SumOver(f, S) ==
    LET RECURSIVE Sum(_)
        Sum(T) == IF T = {} THEN 0
                  ELSE LET x == CHOOSE y \in T : TRUE IN f[x] + Sum(T \ {x})
    IN Sum(S)

\* what has been written plus what the running submissions will add
Committed ==
    SumOver(applied, Keys) + SumOver([s \in Sessions |-> req[s].newConnections], Sessions)

\* OpenModal, were the add button rendered for every user
OpenModalAnyone(s) ==
    /\ ~modalVisible[s]
    /\ modalVisible' = [modalVisible EXCEPT ![s] = TRUE]
    /\ UNCHANGED <<lbResult, users, sales, pc, req, formData, formErrors, submitting, isAdmin,
                   leaderboard, loading, refreshing, lbInFlight, toast, path, applied>>
    /\ UNCHANGED <<pureVars, authVars, appVars>>

\* the floating add button, rendered for admins only
OpenModal(s) ==
    /\ isAdmin[s]
    /\ ~modalVisible[s]
    /\ modalVisible' = [modalVisible EXCEPT ![s] = TRUE]
    /\ UNCHANGED <<lbResult, users, sales, pc, req, formData, formErrors, submitting, isAdmin,
                   leaderboard, loading, refreshing, lbInFlight, toast, path, applied>>
    /\ UNCHANGED <<pureVars, authVars, appVars>>

\* the close button of the modal and onRequestClose, enabled while submitting too
ResetModal(s) ==
    /\ modalVisible[s]
    /\ modalVisible' = [modalVisible EXCEPT ![s] = FALSE]
    /\ formData' = [formData EXCEPT ![s] = EmptyForm]
    /\ formErrors' = [formErrors EXCEPT ![s] = {}]
    /\ UNCHANGED <<lbResult, users, sales, pc, req, submitting, isAdmin, leaderboard, loading,
                   refreshing, lbInFlight, toast, path, applied>>
    /\ UNCHANGED <<pureVars, authVars, appVars>>

\* the user fills the form in and presses Submit; validation fails
HandleSubmitInvalid(s, fd) ==
    /\ modalVisible[s]
    /\ ~submitting[s]
    /\ pc[s] = "idle"
    /\ validateFormErrors(fd) # {}
    /\ formData' = [formData EXCEPT ![s] = fd]
    /\ formErrors' = [formErrors EXCEPT ![s] = validateFormErrors(fd)]
    /\ path' = [path EXCEPT ![s] = <<"Idle", "Validating", "Idle">>]
    /\ UNCHANGED <<lbResult, users, sales, pc, req, modalVisible, submitting, isAdmin,
                   leaderboard, loading, refreshing, lbInFlight, toast, applied>>
    /\ UNCHANGED <<pureVars, authVars, appVars>>

\* the press with a valid form: submitting is set and the select is sent
HandleSubmitSend(s, fd) ==
    /\ modalVisible[s]
    /\ ~submitting[s]
    /\ pc[s] = "idle"
    /\ validateFormErrors(fd) = {}
    /\ Committed + parseInt(fd.connections).val <= MaxTotal
    /\ formData' = [formData EXCEPT ![s] = fd]
    /\ formErrors' = [formErrors EXCEPT ![s] = {}]
    /\ submitting' = [submitting EXCEPT ![s] = TRUE]
    /\ pc' = [pc EXCEPT ![s] = "select"]
    /\ req' = [req EXCEPT ![s] =
                  [user_id |-> fd.user_id, month_year |-> MonthYear(fd.date),
                   newConnections |-> parseInt(fd.connections).val,
                   currentConnections |-> 0, missed |-> 0]]
    /\ path' = [path EXCEPT ![s] = <<"Idle", "Validating", "Submitting">>]
    /\ UNCHANGED <<lbResult, users, sales, modalVisible, isAdmin, leaderboard, loading,
                   refreshing, lbInFlight, toast, applied>>
    /\ UNCHANGED <<pureVars, authVars, appVars>>

\* the press where the fetches in flight are counted, not told apart
HandleSubmitStart(s, fd) ==
    /\ lbInFlight[s] < MaxInFlight
    /\ HandleSubmitSend(s, fd)

\* SubmitFailed, had the catch block sent the call again
SubmitFailedRetrying(s) ==
    /\ toast' = [toast EXCEPT ![s] = "sales_error"]
    /\ UNCHANGED <<submitting, pc, req>>
    /\ path' = [path EXCEPT ![s] = path[s] \o <<"Failure", "Idle">>]

\* the catch and finally blocks of handleSubmit
SubmitFailed(s) ==
    /\ toast' = [toast EXCEPT ![s] = "sales_error"]
    /\ submitting' = [submitting EXCEPT ![s] = FALSE]
    /\ pc' = [pc EXCEPT ![s] = "idle"]
    /\ req' = [req EXCEPT ![s] = NoReq]
    /\ path' = [path EXCEPT ![s] = path[s] \o <<"Failure", "Idle">>]

\* existingData ? existingData.connections : 0, after a select that did not throw
currentConnectionsOf(u, m) == Stored(u, m)

\* the select answers: a row, or PGRST116 (no rows), which is not an error here
SelectOk(s) ==
    /\ pc[s] = "select"
    /\ pc' = [pc EXCEPT ![s] = "upsert"]
    /\ req' = [req EXCEPT ![s].currentConnections =
                              currentConnectionsOf(req[s].user_id, req[s].month_year)]
    /\ UNCHANGED <<lbResult, users, sales, formData, formErrors, modalVisible, submitting,
                   isAdmin, leaderboard, loading, refreshing, lbInFlight, toast, path,
                   applied>>
    /\ UNCHANGED <<pureVars, authVars, appVars>>

\* the select fails with another error: throw fetchError
SelectFail(s) ==
    /\ pc[s] = "select"
    /\ SubmitFailed(s)
    /\ UNCHANGED <<lbResult, users, sales, formData, formErrors, modalVisible, isAdmin,
                   leaderboard, loading, refreshing, lbInFlight, applied>>
    /\ UNCHANGED <<pureVars, authVars, appVars>>

\* an overwrite with the delta alone
updatedConnectionsReplace(r) == r.newConnections

\* currentConnections + newConnections
updatedConnections(r) == r.currentConnections + r.newConnections

\* the row an atomic increment at write time would leave
UpsertRowAtomic(r) ==
    [user_id |-> r.user_id, month_year |-> r.month_year,
     connections |-> Stored(r.user_id, r.month_year) + r.newConnections]

\* the row handleSubmit upserts
UpsertRow(r) ==
    [user_id |-> r.user_id, month_year |-> r.month_year,
     connections |-> updatedConnections(r)]

\* the upsert succeeds: success toast, resetModal(), n calls of
\* fetchLeaderboard() (one in the code), finally
UpsertOkWrite(s, n) ==
    /\ pc[s] = "upsert"
    /\ sales' = Upsert(sales, UpsertRow(req[s]))
    /\ applied' = [applied EXCEPT ![<<req[s].user_id, req[s].month_year>>] =
                                      @ + req[s].newConnections]
    /\ toast' = [toast EXCEPT ![s] = "sales_success"]
    /\ modalVisible' = [modalVisible EXCEPT ![s] = FALSE]
    /\ formData' = [formData EXCEPT ![s] = EmptyForm]
    /\ formErrors' = [formErrors EXCEPT ![s] = {}]
    /\ lbInFlight' = [lbInFlight EXCEPT ![s] = @ + n]
    /\ submitting' = [submitting EXCEPT ![s] = FALSE]
    /\ pc' = [pc EXCEPT ![s] = "idle"]
    /\ req' = [t \in Sessions |->
                 IF t = s THEN NoReq
                 ELSE IF pc[t] = "upsert" /\ req[t].user_id = req[s].user_id
                         /\ req[t].month_year = req[s].month_year
                         /\ req[t].currentConnections = req[s].currentConnections
                      THEN [req[t] EXCEPT !.missed = @ + req[s].newConnections]
                      ELSE req[t]]
    /\ path' = [path EXCEPT ![s] = path[s] \o <<"Success", "Refreshing", "Idle">>]
    /\ UNCHANGED <<lbResult, users, isAdmin, leaderboard, loading, refreshing>>
    /\ UNCHANGED <<pureVars, authVars>>

\* the successful upsert where the fetches in flight are counted
UpsertOk(s) ==
    /\ UpsertOkWrite(s, 1)
    /\ UNCHANGED appVars

\* a failure reported for a write the backend applied
UpsertFailApplied(s) ==
    /\ pc[s] = "upsert"
    /\ sales' = Upsert(sales, UpsertRow(req[s]))
    /\ SubmitFailed(s)
    /\ UNCHANGED <<lbResult, users, formData, formErrors, modalVisible, isAdmin,
                   leaderboard, loading, refreshing, lbInFlight, applied>>
    /\ UNCHANGED <<pureVars, authVars, appVars>>

\* a failure after which the leaderboard is fetched all the same
UpsertFailRefreshing(s) ==
    /\ pc[s] = "upsert"
    /\ SubmitFailed(s)
    /\ lbInFlight' = [lbInFlight EXCEPT ![s] = @ + 1]
    /\ UNCHANGED <<lbResult, users, sales, formData, formErrors, modalVisible, isAdmin,
                   leaderboard, loading, refreshing, applied>>
    /\ UNCHANGED <<pureVars, authVars, appVars>>

\* the upsert fails: throw error
UpsertFail(s) ==
    /\ pc[s] = "upsert"
    /\ SubmitFailed(s)
    /\ UNCHANGED <<lbResult, users, sales, formData, formErrors, modalVisible, isAdmin,
                   leaderboard, loading, refreshing, lbInFlight, applied>>
    /\ UNCHANGED <<pureVars, authVars, appVars>>


(***************************************************************************)
(* HomePage: the leaderboard.                                              *)
(***************************************************************************)
\* CurrentRows without .eq('month_year', currentMonth)
CurrentRowsAnyMonth ==
    {r \in sales : \E u \in users : u.id = r.user_id}

\* the sales rows of the current month whose user resolves (users!inner)
CurrentRows ==
    {r \in sales : r.month_year = CurrentMonth /\ \E u \in users : u.id = r.user_id}

NameOf(id) == (CHOOSE u \in users : u.id = id).name

\* every order of a set of rows
Orders(S) ==
    {q \in [1..Cardinality(S) -> S] : \A x \in S : \E i \in 1..Cardinality(S) : q[i] = x}

\* .order('connections', { ascending: false }): ties in any order
Descending(q) ==
    \A i, j \in 1..Len(q) : i < j => q[i].connections >= q[j].connections

\* a connections column that holds no value (SQL NULL, null in the response),
\* written here as a number no stored total can be
NullConnections == -1

\* ORDER BY connections DESC as the backend evaluates it: the rows with a value
\* in descending order, the rows without one all before them (the default of
\* the database for DESC) or all after them (a client library that adds
\* nullslast); the call names no placement
OrderDesc(q) ==
    /\ \A i, j \in 1..Len(q) :
          (i < j /\ q[i].connections # NullConnections
                 /\ q[j].connections # NullConnections)
          => q[i].connections >= q[j].connections
    /\ \/ \A i, j \in 1..Len(q) :
             (q[i].connections = NullConnections /\ q[j].connections # NullConnections)
             => i < j
       \/ \A i, j \in 1..Len(q) :
             (q[i].connections = NullConnections /\ q[j].connections # NullConnections)
             => j < i

\* the results the backend may give the select of fetchLeaderboard
LeaderboardSelect ==
    {[i \in 1..Len(q) |->
         [user_id |-> q[i].user_id, connections |-> q[i].connections,
          users |-> [name |-> NameOf(q[i].user_id)]]] :
       q \in {o \in Orders(CurrentRows) : OrderDesc(o)}}

\* item.connections || 0
connectionsOrZero(c) == IF c = NullConnections THEN 0 ELSE c

\* the array index of the i-th element
Index(i) == i - 1

\* competition ranking: equal connections share a rank
rankOfTied(d, i) ==
    1 + Cardinality({j \in 1..Len(d) : d[j].connections > d[i].connections})

\* rank: index + 1
rankOf(d, i) == Index(i) + 1

Unknown == <<"U", "n", "k", "n", "o", "w", "n">>

\* (data || []).map((item, index) => ({ ... }))
RankedData(d) ==
    [i \in 1..Len(d) |->
        [user_id |-> d[i].user_id,
         name |-> IF d[i].users.name = <<>> THEN Unknown ELSE d[i].users.name,
         connections |-> connectionsOrZero(d[i].connections),
         rank |-> rankOf(d, i)]]

\* const zoneColors
zoneColors == [red |-> "#EF4444", yellow |-> "#F59E0B", orange |-> "#F97316",
               lightGreen |-> "#10B981", darkGreen |-> "#059669"]

\* the bands with the boundary values in the band above
getZoneColorExclusive(connections) ==
    IF connections < 5 THEN zoneColors.red
    ELSE IF connections < 10 THEN zoneColors.yellow
    ELSE IF connections < 15 THEN zoneColors.orange
    ELSE IF connections < 20 THEN zoneColors.lightGreen
    ELSE zoneColors.darkGreen

getZoneColor(connections) ==
    IF connections < 5 THEN zoneColors.red
    ELSE IF connections <= 10 THEN zoneColors.yellow
    ELSE IF connections <= 15 THEN zoneColors.orange
    ELSE IF connections <= 20 THEN zoneColors.lightGreen
    ELSE zoneColors.darkGreen

\* pull to refresh; the list is not reachable under the modal
OnRefresh(s) ==
    /\ ~modalVisible[s]
    /\ pc[s] = "idle"
    /\ lbInFlight[s] < MaxInFlight
    /\ refreshing' = [refreshing EXCEPT ![s] = TRUE]
    /\ loading' = [loading EXCEPT ![s] = TRUE]
    /\ lbInFlight' = [lbInFlight EXCEPT ![s] = @ + 1]
    /\ UNCHANGED <<lbResult, users, sales, pc, req, formData, formErrors, modalVisible,
                   submitting, isAdmin, leaderboard, toast, path, applied>>
    /\ UNCHANGED <<pureVars, authVars, appVars>>

\* an empty result reported as a failure
FetchLeaderboardOkStrict(s) ==
    /\ lbInFlight[s] > 0
    /\ \E d \in LeaderboardSelect :
          /\ leaderboard' = [leaderboard EXCEPT ![s] = RankedData(d)]
          /\ toast' = [toast EXCEPT ![s] =
                          IF d = <<>> THEN "leaderboard_error" ELSE toast[s]]
    /\ loading' = [loading EXCEPT ![s] = FALSE]
    /\ refreshing' = [refreshing EXCEPT ![s] = FALSE]
    /\ lbInFlight' = [lbInFlight EXCEPT ![s] = @ - 1]
    /\ lbResult' = [lbResult EXCEPT ![s] = "ok"]
    /\ UNCHANGED <<users, sales, pc, req, formData, formErrors, modalVisible,
                   submitting, isAdmin, path, applied>>
    /\ UNCHANGED <<pureVars, authVars, appVars>>

\* the select of fetchLeaderboard answers: setLeaderboard(rankedData), finally
FetchLeaderboardOk(s) ==
    /\ lbInFlight[s] > 0
    /\ \E d \in LeaderboardSelect :
          leaderboard' = [leaderboard EXCEPT ![s] = RankedData(d)]
    /\ loading' = [loading EXCEPT ![s] = FALSE]
    /\ refreshing' = [refreshing EXCEPT ![s] = FALSE]
    /\ lbInFlight' = [lbInFlight EXCEPT ![s] = @ - 1]
    /\ lbResult' = [lbResult EXCEPT ![s] = "ok"]
    /\ UNCHANGED <<users, sales, pc, req, formData, formErrors, modalVisible,
                   submitting, isAdmin, toast, path, applied>>
    /\ UNCHANGED <<pureVars, authVars, appVars>>

\* a failure that empties the list: setLeaderboard(data || []) before the check
FetchLeaderboardFailClearing(s) ==
    /\ lbInFlight[s] > 0
    /\ toast' = [toast EXCEPT ![s] = "leaderboard_error"]
    /\ leaderboard' = [leaderboard EXCEPT ![s] = <<>>]
    /\ loading' = [loading EXCEPT ![s] = FALSE]
    /\ refreshing' = [refreshing EXCEPT ![s] = FALSE]
    /\ lbInFlight' = [lbInFlight EXCEPT ![s] = @ - 1]
    /\ lbResult' = [lbResult EXCEPT ![s] = "error"]
    /\ UNCHANGED <<users, sales, pc, req, formData, formErrors, modalVisible,
                   submitting, isAdmin, path, applied>>
    /\ UNCHANGED <<pureVars, authVars, appVars>>

\* the select fails (an error result or a throw): error toast, finally
FetchLeaderboardFail(s) ==
    /\ lbInFlight[s] > 0
    /\ toast' = [toast EXCEPT ![s] = "leaderboard_error"]
    /\ loading' = [loading EXCEPT ![s] = FALSE]
    /\ refreshing' = [refreshing EXCEPT ![s] = FALSE]
    /\ lbInFlight' = [lbInFlight EXCEPT ![s] = @ - 1]
    /\ lbResult' = [lbResult EXCEPT ![s] = "error"]
    /\ UNCHANGED <<users, sales, pc, req, formData, formErrors, modalVisible,
                   submitting, isAdmin, leaderboard, path, applied>>
    /\ UNCHANGED <<pureVars, authVars, appVars>>


(***************************************************************************)
(* The pure functions of the leaderboard on bounded inputs.                *)
(***************************************************************************)
PureUsers == {"u1", "u2", "u3", "u4"}
PureConnections == {10, 30}

\* fetch results: one row per user, in descending order of connections
InputData ==
    UNION { {d \in [1..n -> [user_id : PureUsers, connections : PureConnections,
                             users : {[name |-> <<"A">>]}]] :
                /\ \A i, j \in 1..n : i # j => d[i].user_id # d[j].user_id
                /\ Descending(d)} : n \in 0..MaxRows }

PureInit ==
    /\ data \in InputData
    /\ rankedData = <<>>
    /\ zoneIn \in 0..MaxZoneInput
    /\ zoneOut = ""

ApplyRank ==
    /\ data # <<>>
    /\ rankedData = <<>>
    /\ rankedData' = RankedData(data)
    /\ UNCHANGED <<data, zoneIn, zoneOut>>
    /\ UNCHANGED <<salesVars, authVars, appVars>>

\* renderItem: getZoneColor(item.connections)
ApplyZone ==
    /\ zoneOut = ""
    /\ zoneOut' = getZoneColor(zoneIn)
    /\ UNCHANGED <<data, rankedData, zoneIn>>
    /\ UNCHANGED <<salesVars, authVars, appVars>>

(***************************************************************************)
(* AuthPage: registration.                                                 *)
(***************************************************************************)
Devices == {"D1", "D2"}

\* the home and profile screens of session s run on this device
DeviceOf(s) == IF s = "A" THEN "D1" ELSE "D2"
SessionOf(d) == IF d = "D1" THEN "A" ELSE "B"

\* str.replace(pat, ''): the first occurrence of pat is removed
ReplaceFirst(str, pat) ==
    LET hits == {i \in 1..Len(str) : i + Len(pat) - 1 <= Len(str)
                                      /\ SubSeq(str, i, i + Len(pat) - 1) = pat}
    IN IF hits = {} THEN str
       ELSE LET i == CHOOSE h \in hits : \A g \in hits : h <= g
            IN SubSeq(str, 1, i - 1) \o SubSeq(str, i + Len(pat), Len(str))

\* /^\d+$/
AllDigits(str) == str # <<>> /\ \A i \in 1..Len(str) : str[i] \in Digits

\* nine digits with any first digit
PhoneDigitsOkAnyFirst(str) ==
    /\ Len(str) = 9
    /\ \A i \in 1..9 : str[i] \in Digits

\* /^[17]\d{8}$/
PhoneDigitsOk(str) ==
    /\ Len(str) = 9
    /\ str[1] \in {"1", "7"}
    /\ \A i \in 2..9 : str[i] \in Digits

\* the fields validateForm of the auth screen puts a message on
validateAuthErrors(fd, isLogin) ==
    (IF ~isLogin /\ (trim(fd.idNumber) = <<>> \/ Len(trim(fd.idNumber)) < 8
                     \/ ~AllDigits(trim(fd.idNumber)))
     THEN {"idNumber"} ELSE {})
    \cup (IF trim(fd.phoneNumber) = <<>>
             \/ ~PhoneDigitsOk(ReplaceFirst(fd.phoneNumber, Prefix254))
          THEN {"phoneNumber"} ELSE {})
    \cup (IF ~isLogin /\ (trim(fd.name) = <<>> \/ Len(trim(fd.name)) < 2)
          THEN {"name"} ELSE {})
    \cup (IF trim(fd.password) = <<>> \/ Len(fd.password) < 6
          THEN {"password"} ELSE {})
    \cup (IF ~isLogin /\ (trim(fd.confirmPassword) = <<>>
                          \/ fd.password # fd.confirmPassword)
          THEN {"confirmPassword"} ELSE {})

EmptyAuthForm == [idNumber |-> <<>>, phoneNumber |-> Prefix254, name |-> <<>>,
                  password |-> <<>>, confirmPassword |-> <<>>]

AuthForm(id, phone, pw2) ==
    [idNumber |-> id, phoneNumber |-> phone, name |-> <<" ", "C", "y">>,
     password |-> Rep("z", 6), confirmPassword |-> pw2]

NewPhone == Prefix254 \o <<"1">> \o Rep("3", 8)
NewId == Rep("3", 9)

\* what may be in the registration form when Register is pressed
AuthForms ==
    { AuthForm(NewId, NewPhone, Rep("z", 6)),
      AuthForm(NewId, User1.phone_number, Rep("z", 6)),
      AuthForm(User1.id_number, NewPhone, Rep("z", 6)),
      AuthForm(NewId, Prefix254 \o <<"2">> \o Rep("3", 8), Rep("z", 6)),
      AuthForm(Rep("3", 7), NewPhone, Rep("z", 6)),
      AuthForm(NewId, NewPhone, Rep("z", 5)) }

NoAuthReq == [fullPhoneNumber |-> <<>>, idNumber |-> <<>>, name |-> <<>>,
              password |-> <<>>, existed |-> FALSE]

NoErrors == [fields |-> {}, general |-> ""]

NoSession == [userId |-> "", userName |-> <<>>]

\* the ids the backend gives new rows
NewUserIds == <<"n1", "n2">>

NextUserId ==
    NewUserIds[CHOOSE i \in 1..Len(NewUserIds) :
                  /\ \A u \in users : u.id # NewUserIds[i]
                  /\ \A j \in 1..(i - 1) : \E u \in users : u.id = NewUserIds[j]]

authUnchangedSales ==
    UNCHANGED <<sales, pc, req, formData, formErrors, modalVisible, submitting,
                isAdmin, leaderboard, loading, refreshing, lbInFlight, toast, lbResult,
                path, applied>>

\* Register pressed with a form that fails validation
RegisterInvalid(d, fd) ==
    /\ route[d] = "auth"
    /\ ~authLoading[d]
    /\ authPc[d] = "idle"
    /\ validateAuthErrors(fd, FALSE) # {}
    /\ authFormData' = [authFormData EXCEPT ![d] = fd]
    /\ authErrors' = [authErrors EXCEPT ![d] =
                         [fields |-> validateAuthErrors(fd, FALSE), general |-> ""]]
    /\ UNCHANGED <<users, authPc, authReq, authLoading, storage, route>>
    /\ authUnchangedSales
    /\ UNCHANGED <<pureVars, appVars>>

\* Register pressed with a valid form: the phone existence check is sent
RegisterStart(d, fd) ==
    /\ route[d] = "auth"
    /\ ~authLoading[d]
    /\ authPc[d] = "idle"
    /\ validateAuthErrors(fd, FALSE) = {}
    /\ authFormData' = [authFormData EXCEPT ![d] = fd]
    /\ authErrors' = [authErrors EXCEPT ![d] = NoErrors]
    /\ authLoading' = [authLoading EXCEPT ![d] = TRUE]
    /\ authPc' = [authPc EXCEPT ![d] = "checkPhone"]
    /\ LET full == Prefix254 \o ReplaceFirst(fd.phoneNumber, Prefix254)
       IN authReq' = [authReq EXCEPT ![d] =
             [fullPhoneNumber |-> full, idNumber |-> trim(fd.idNumber),
              name |-> trim(fd.name), password |-> fd.password,
              existed |-> \E u \in users : \/ u.phone_number = full
                                           \/ u.id_number = trim(fd.idNumber)]]
    /\ UNCHANGED <<users, storage, route>>
    /\ authUnchangedSales
    /\ UNCHANGED <<pureVars, appVars>>

\* an early return of handleRegister with a general message
RegisterRejected(d, msg) ==
    /\ authErrors' = [authErrors EXCEPT ![d] = [fields |-> {}, general |-> msg]]
    /\ authLoading' = [authLoading EXCEPT ![d] = FALSE]
    /\ authPc' = [authPc EXCEPT ![d] = "idle"]
    /\ authReq' = [authReq EXCEPT ![d] = NoAuthReq]
    /\ UNCHANGED <<users, authFormData, storage, route>>
    /\ authUnchangedSales
    /\ UNCHANGED <<pureVars, appVars>>

\* .single() gives the row when exactly one row matches
PhoneMatches(d) == {u \in users : u.phone_number = authReq[d].fullPhoneNumber}
IdMatches(d) == {u \in users : u.id_number = authReq[d].idNumber}

\* the phone check answers with a row
CheckPhoneFound(d) ==
    /\ authPc[d] = "checkPhone"
    /\ Cardinality(PhoneMatches(d)) = 1
    /\ RegisterRejected(d, "Phone number already registered. Please login instead.")

\* the phone check answers without data: no row, several rows, or the read
\* failed; its error is not looked at
CheckPhoneNull(d) ==
    /\ authPc[d] = "checkPhone"
    /\ authPc' = [authPc EXCEPT ![d] = "checkId"]
    /\ UNCHANGED <<users, authReq, authFormData, authErrors, authLoading, storage, route>>
    /\ authUnchangedSales
    /\ UNCHANGED <<pureVars, appVars>>

\* the ID check answers with a row
CheckIdFound(d) ==
    /\ authPc[d] = "checkId"
    /\ Cardinality(IdMatches(d)) = 1
    /\ RegisterRejected(d, "ID Number already exists. Please use a different ID.")

\* the ID check answers without data
CheckIdNull(d) ==
    /\ authPc[d] = "checkId"
    /\ authPc' = [authPc EXCEPT ![d] = "insert"]
    /\ UNCHANGED <<users, authReq, authFormData, authErrors, authLoading, storage, route>>
    /\ authUnchangedSales
    /\ UNCHANGED <<pureVars, appVars>>

\* the insert succeeds: session stored, form reset, router.push('/(tabs)'), finally
InsertOkWrite(d, admin) ==
    /\ authPc[d] = "insert"
    /\ users' = users \cup
          {[id |-> NextUserId, phone_number |-> authReq[d].fullPhoneNumber,
            id_number |-> authReq[d].idNumber, name |-> authReq[d].name,
            password |-> authReq[d].password, is_admin |-> admin]}
    /\ storage' = [storage EXCEPT ![d] =
                      [userId |-> NextUserId, userName |-> authReq[d].name]]
    /\ authFormData' = [authFormData EXCEPT ![d] = EmptyAuthForm]
    /\ route' = [route EXCEPT ![d] = "(tabs)"]
    /\ authLoading' = [authLoading EXCEPT ![d] = FALSE]
    /\ authPc' = [authPc EXCEPT ![d] = "idle"]
    /\ authReq' = [authReq EXCEPT ![d] = NoAuthReq]
    /\ toast' = [toast EXCEPT ![SessionOf(d)] = "register_success"]
    /\ UNCHANGED authErrors
    /\ UNCHANGED <<sales, pc, req, formData, formErrors, modalVisible, submitting,
                   isAdmin, leaderboard, loading, refreshing, lbInFlight, lbResult,
                   path, applied>>
    /\ UNCHANGED <<pureVars, appVars>>

\* InsertOk, had the insert sent is_admin: true
InsertOkAdmin(d) == InsertOkWrite(d, TRUE)

\* the row handleRegister inserts has is_admin: false
InsertOk(d) == InsertOkWrite(d, FALSE)

\* the insert fails: throw error, catch, finally
InsertFail(d) ==
    /\ authPc[d] = "insert"
    /\ RegisterRejected(d, "Registration failed. Please try again.")

(***************************************************************************)
(* AuthPage: the phone field and login.                                    *)
(***************************************************************************)
startsWith(str, pat) == Len(str) >= Len(pat) /\ SubSeq(str, 1, Len(pat)) = pat

\* str.substring(0, n)
substring0(str, n) == SubSeq(str, 1, IF Len(str) < n THEN Len(str) ELSE n)

formatPhoneNumber(phone) ==
    IF ~startsWith(phone, Prefix254) THEN Prefix254
    ELSE LET digits == numericText(SubSeq(phone, 5, Len(phone)))
             limitedDigits == substring0(digits, 9)
         IN Prefix254 \o limitedDigits

\* maxLength={13} of the phone input
phoneMaxLength(text) == substring0(text, 13)

\* the keys pressed in the phone field
PhoneKeys == {"7", "0", "a"}

\* texts pasted into the phone field
PastedTexts ==
    { User1.phone_number,
      NewPhone,
      <<"0">> \o SubSeq(User1.phone_number, 5, 13),
      Prefix254 \o <<" ", "7", "0", "0", " ", "7", "0", "0", " ", "7", "0", "0">>,
      Prefix254 \o <<"7", "-", "7", "7", "7", "7", "7", "7", "7", "7">> }

\* what onChangeText may receive when the field holds `field`
PhoneEdits(field) ==
    { phoneMaxLength(t) :
        t \in {field \o <<c>> : c \in PhoneKeys}
              \cup {SubSeq(field, 1, Len(field) - 1), Tail(field)}
              \cup PastedTexts }

\* onChangeText of the phone input, editable while not loading
ChangePhoneText(d, text) ==
    /\ route[d] = "auth"
    /\ ~authLoading[d]
    /\ authFormData' = [authFormData EXCEPT ![d].phoneNumber = formatPhoneNumber(text)]
    /\ UNCHANGED <<users, authPc, authReq, authErrors, authLoading, storage, route>>
    /\ authUnchangedSales
    /\ UNCHANGED <<pureVars, appVars>>

\* the rest of the form when Sign In is pressed
LoginForm(phone, pw) ==
    [idNumber |-> <<>>, phoneNumber |-> phone, name |-> <<>>,
     password |-> pw, confirmPassword |-> <<>>]

\* what may be in the login form when Sign In is pressed
LoginForms ==
    { LoginForm(User1.phone_number, User1.password),
      LoginForm(User1.phone_number, Rep("z", 6)),
      LoginForm(NewPhone, Rep("z", 6)),
      LoginForm(Prefix254 \o <<"2">> \o Rep("3", 8), Rep("z", 6)),
      LoginForm(User1.phone_number, Rep("x", 5)) }

\* Sign In pressed with a form that fails validation
LoginInvalid(d, fd) ==
    /\ route[d] = "auth"
    /\ ~authLoading[d]
    /\ authPc[d] = "idle"
    /\ validateAuthErrors(fd, TRUE) # {}
    /\ authFormData' = [authFormData EXCEPT ![d] = fd]
    /\ authErrors' = [authErrors EXCEPT ![d] =
                         [fields |-> validateAuthErrors(fd, TRUE), general |-> ""]]
    /\ UNCHANGED <<users, authPc, authReq, authLoading, storage, route>>
    /\ authUnchangedSales
    /\ UNCHANGED <<pureVars, appVars>>

\* Sign In pressed with a valid form: the select of the user is sent
LoginStart(d, fd) ==
    /\ route[d] = "auth"
    /\ ~authLoading[d]
    /\ authPc[d] = "idle"
    /\ validateAuthErrors(fd, TRUE) = {}
    /\ authFormData' = [authFormData EXCEPT ![d] = fd]
    /\ authErrors' = [authErrors EXCEPT ![d] = NoErrors]
    /\ authLoading' = [authLoading EXCEPT ![d] = TRUE]
    /\ authPc' = [authPc EXCEPT ![d] = "loginSelect"]
    /\ LET full == Prefix254 \o ReplaceFirst(fd.phoneNumber, Prefix254)
       IN authReq' = [authReq EXCEPT ![d] =
             [fullPhoneNumber |-> full, idNumber |-> <<>>, name |-> <<>>,
              password |-> fd.password,
              existed |-> \E u \in users : u.phone_number = full]]
    /\ UNCHANGED <<users, storage, route>>
    /\ authUnchangedSales
    /\ UNCHANGED <<pureVars, appVars>>

\* userError || !user: the read failed, or no row or several rows matched
LoginNotFound(d) ==
    /\ authPc[d] = "loginSelect"
    /\ RegisterRejected(d, "Phone number not found. Please register first.")

\* the row came back and its password differs from the one entered
LoginWrongPassword(d) ==
    /\ authPc[d] = "loginSelect"
    /\ Cardinality(PhoneMatches(d)) = 1
    /\ \E u \in PhoneMatches(d) : u.password # authReq[d].password
    /\ RegisterRejected(d, "Invalid phone number or password.")

\* the row came back with the password entered: session stored, toast, form
\* reset, router.push('/(tabs)'), finally
LoginOk(d) ==
    /\ authPc[d] = "loginSelect"
    /\ Cardinality(PhoneMatches(d)) = 1
    /\ \E u \in PhoneMatches(d) :
          /\ u.password = authReq[d].password
          /\ storage' = [storage EXCEPT ![d] = [userId |-> u.id, userName |-> u.name]]
    /\ toast' = [toast EXCEPT ![SessionOf(d)] = "login_success"]
    /\ authFormData' = [authFormData EXCEPT ![d] = EmptyAuthForm]
    /\ route' = [route EXCEPT ![d] = "(tabs)"]
    /\ authLoading' = [authLoading EXCEPT ![d] = FALSE]
    /\ authPc' = [authPc EXCEPT ![d] = "idle"]
    /\ authReq' = [authReq EXCEPT ![d] = NoAuthReq]
    /\ UNCHANGED <<users, authErrors>>
    /\ UNCHANGED <<sales, pc, req, formData, formErrors, modalVisible, submitting,
                   isAdmin, leaderboard, loading, refreshing, lbInFlight, lbResult,
                   path, applied>>
    /\ UNCHANGED <<pureVars, appVars>>

\* the row came back with the password entered and AsyncStorage.setItem throws,
\* at 'userId' or, with userId written, at 'userName': catch sets the general
\* message, finally
LoginSetItemThrows(d) ==
    /\ authPc[d] = "loginSelect"
    /\ Cardinality(PhoneMatches(d)) = 1
    /\ \E u \in PhoneMatches(d) :
          /\ u.password = authReq[d].password
          /\ \E store \in {storage[d], [storage[d] EXCEPT !.userId = u.id]} :
                storage' = [storage EXCEPT ![d] = store]
    /\ authErrors' = [authErrors EXCEPT ![d] =
                         [fields |-> {}, general |-> "Login failed. Please try again."]]
    /\ authLoading' = [authLoading EXCEPT ![d] = FALSE]
    /\ authPc' = [authPc EXCEPT ![d] = "idle"]
    /\ authReq' = [authReq EXCEPT ![d] = NoAuthReq]
    /\ UNCHANGED <<users, authFormData, route>>
    /\ authUnchangedSales
    /\ UNCHANGED <<pureVars, appVars>>

(***************************************************************************)
(* RootLayout: the session check of the launch.  The effect that runs      *)
(* checkSession depends on `loaded`: it runs at mount and again when the   *)
(* fonts have loaded.  The navigator is rendered, with initialRoute as its *)
(* initial route, once loaded holds and isCheckingSession does not.        *)
(***************************************************************************)
Runs == {1, 2}

NoRun == [pc |-> "none", userId |-> "", result |-> "none", logged |-> FALSE]
FirstRun == [pc |-> "getItem", userId |-> "", result |-> "none", logged |-> FALSE]

\* the route of a lookup that is trusted whatever it returned
routeAfterLookupTrusting(current, found) == "(tabs)"

\* if (data && !error) setInitialRoute('(tabs)')
routeAfterLookup(current, found) == IF found THEN "(tabs)" ELSE current

\* the first render of RootLayoutNav: <Stack initialRouteName={initialRoute}>
Rendered(d, isLoaded, checking, initial) ==
    IF route[d] = "splash" /\ isLoaded /\ ~checking THEN initial ELSE route[d]

\* the end of one run of checkSession: finally { setIsCheckingSession(false) }
RootFinish(d, r, res, log, initial) ==
    /\ rootRun' = [rootRun EXCEPT ![d][r] =
                      [@ EXCEPT !.pc = "done", !.result = res, !.logged = log]]
    /\ isCheckingSession' = [isCheckingSession EXCEPT ![d] = FALSE]
    /\ initialRoute' = [initialRoute EXCEPT ![d] = initial]
    /\ route' = [route EXCEPT ![d] = Rendered(d, loaded[d], FALSE, initial)]
    /\ UNCHANGED <<loaded, users, authPc, authReq, authFormData, authErrors,
                   authLoading, storage>>
    /\ authUnchangedSales
    /\ UNCHANGED <<pureVars, checkVars, profileVars, fetches>>

\* useFonts reports the fonts loaded: the effect runs checkSession again
FontsLoaded(d) ==
    /\ ~loaded[d]
    /\ loaded' = [loaded EXCEPT ![d] = TRUE]
    /\ rootRun' = [rootRun EXCEPT ![d][2] = FirstRun]
    /\ route' = [route EXCEPT ![d] =
                    Rendered(d, TRUE, isCheckingSession[d], initialRoute[d])]
    /\ UNCHANGED <<isCheckingSession, initialRoute, users, authPc, authReq,
                   authFormData, authErrors, authLoading, storage>>
    /\ authUnchangedSales
    /\ UNCHANGED <<pureVars, checkVars, profileVars, fetches>>

\* AsyncStorage.getItem('userId') answers with a stored id: the lookup is sent
RootGetItem(d, r) ==
    /\ rootRun[d][r].pc = "getItem"
    /\ storage[d].userId # ""
    /\ rootRun' = [rootRun EXCEPT ![d][r] =
                      [@ EXCEPT !.pc = "lookup", !.userId = storage[d].userId]]
    /\ UNCHANGED <<loaded, isCheckingSession, initialRoute, users, authPc, authReq,
                   authFormData, authErrors, authLoading, storage, route>>
    /\ authUnchangedSales
    /\ UNCHANGED <<pureVars, checkVars, profileVars, fetches>>

\* AsyncStorage.getItem('userId') answers null
RootNoUserId(d, r) ==
    /\ rootRun[d][r].pc = "getItem"
    /\ storage[d].userId = ""
    /\ RootFinish(d, r, "noId", FALSE, initialRoute[d])

\* AsyncStorage.getItem throws: catch { console.error }, finally
RootGetItemThrows(d, r) ==
    /\ rootRun[d][r].pc = "getItem"
    /\ RootFinish(d, r, "threw", TRUE, initialRoute[d])

\* the lookup answers with the row of the stored id
RootLookupUser(d, r) ==
    /\ rootRun[d][r].pc = "lookup"
    /\ Cardinality({u \in users : u.id = rootRun[d][r].userId}) = 1
    /\ RootFinish(d, r, "user", FALSE, routeAfterLookup(initialRoute[d], TRUE))

\* the lookup answers that no row has the stored id
RootLookupNoUser(d, r) ==
    /\ rootRun[d][r].pc = "lookup"
    /\ {u \in users : u.id = rootRun[d][r].userId} = {}
    /\ RootFinish(d, r, "noUser", FALSE, routeAfterLookup(initialRoute[d], FALSE))

\* the lookup fails: error is set and data is null
RootLookupError(d, r) ==
    /\ rootRun[d][r].pc = "lookup"
    /\ RootFinish(d, r, "error", FALSE, routeAfterLookup(initialRoute[d], FALSE))

\* the app is started again: component state is new, AsyncStorage is kept
Relaunch(d) ==
    /\ route[d] # "splash"
    /\ loaded' = [loaded EXCEPT ![d] = FALSE]
    /\ rootRun' = [rootRun EXCEPT ![d] = [r \in Runs |-> IF r = 1 THEN FirstRun ELSE NoRun]]
    /\ isCheckingSession' = [isCheckingSession EXCEPT ![d] = TRUE]
    /\ initialRoute' = [initialRoute EXCEPT ![d] = "auth"]
    /\ route' = [route EXCEPT ![d] = "splash"]
    /\ authPc' = [authPc EXCEPT ![d] = "idle"]
    /\ authReq' = [authReq EXCEPT ![d] = NoAuthReq]
    /\ authFormData' = [authFormData EXCEPT ![d] = EmptyAuthForm]
    /\ authErrors' = [authErrors EXCEPT ![d] = NoErrors]
    /\ authLoading' = [authLoading EXCEPT ![d] = FALSE]
    /\ toast' = [toast EXCEPT ![SessionOf(d)] = "none"]
    /\ UNCHANGED <<users, storage>>
    /\ UNCHANGED <<sales, pc, req, formData, formErrors, modalVisible, submitting,
                   isAdmin, leaderboard, loading, refreshing, lbInFlight, lbResult,
                   path, applied>>
    /\ UNCHANGED <<pureVars, checkVars, profileVars, fetches>>

(***************************************************************************)
(* HomePage: the session check of the mount, and fetchUsers.               *)
(***************************************************************************)
\* a registered agent who is no admin
User3 == [id |-> "u3", phone_number |-> Prefix254 \o <<"1">> \o Rep("4", 8),
          id_number |-> Rep("4", 8), name |-> <<"C", "y">>,
          password |-> Rep("w", 6), is_admin |-> FALSE]

HomeMounted == [pc |-> "getItem", userId |-> "", result |-> "none", usersFetch |-> "none"]
HomeChecked(u) == [pc |-> "done", userId |-> u, result |-> "ok", usersFetch |-> "done"]

homeUnchangedModal ==
    UNCHANGED <<sales, pc, req, formData, formErrors, modalVisible, submitting,
                leaderboard, loading, refreshing, lbResult, path, applied>>

homeUnchangedAuth ==
    UNCHANGED <<users, authPc, authReq, authFormData, authErrors, authLoading>>

\* AsyncStorage.getItem('userId') answers with a stored id: the lookup is sent
CheckSessionGetItem(s) ==
    /\ homeCheck[s].pc = "getItem"
    /\ storage[DeviceOf(s)].userId # ""
    /\ homeCheck' = [homeCheck EXCEPT ![s] =
                        [@ EXCEPT !.pc = "lookup", !.userId = storage[DeviceOf(s)].userId]]
    /\ UNCHANGED <<sessionLoading, pickerUsers, isAdmin, lbInFlight, toast, storage, route>>
    /\ homeUnchangedModal /\ homeUnchangedAuth
    /\ UNCHANGED <<pureVars, launchVars, profileVars, fetches>>

\* an end of checkSession that replaces the route by /auth
CheckSessionExpired(s, res, msg, store) ==
    /\ homeCheck' = [homeCheck EXCEPT ![s] = [@ EXCEPT !.pc = "done", !.result = res]]
    /\ toast' = [toast EXCEPT ![s] = msg]
    /\ storage' = [storage EXCEPT ![DeviceOf(s)] = store]
    /\ route' = [route EXCEPT ![DeviceOf(s)] = "auth"]
    /\ sessionLoading' = [sessionLoading EXCEPT ![s] = FALSE]
    /\ UNCHANGED <<pickerUsers, isAdmin, lbInFlight>>
    /\ homeUnchangedModal /\ homeUnchangedAuth
    /\ UNCHANGED <<pureVars, launchVars, profileVars, fetches>>

\* AsyncStorage.removeItem('userId')
removeUserId(store) == [store EXCEPT !.userId = ""]

\* no userId is stored: 'Session Expired', router.replace('/auth')
CheckSessionNoUserId(s) ==
    /\ homeCheck[s].pc = "getItem"
    /\ storage[DeviceOf(s)].userId = ""
    /\ CheckSessionExpired(s, "noId", "session_expired", storage[DeviceOf(s)])

\* AsyncStorage.getItem throws: catch, router.replace('/auth')
CheckSessionThrows(s) ==
    /\ homeCheck[s].pc = "getItem"
    /\ CheckSessionExpired(s, "threw", "session_check_failed", storage[DeviceOf(s)])

\* userError || !userData: the read failed or no row has the stored id
CheckSessionLookupFail(s) ==
    /\ homeCheck[s].pc = "lookup"
    /\ CheckSessionExpired(s, "failed", "user_data_error",
                           removeUserId(storage[DeviceOf(s)]))

\* the row of the stored id: setIsAdmin, fetchLeaderboard(), fetchUsers(), finally
CheckSessionOk(s) ==
    /\ homeCheck[s].pc = "lookup"
    /\ Cardinality({u \in users : u.id = homeCheck[s].userId}) = 1
    /\ \E u \in users :
          /\ u.id = homeCheck[s].userId
          /\ isAdmin' = [isAdmin EXCEPT ![s] = (u.is_admin = TRUE)]
    /\ lbInFlight' = [lbInFlight EXCEPT ![s] = @ + 1]
    /\ homeCheck' = [homeCheck EXCEPT ![s] =
                        [@ EXCEPT !.pc = "done", !.result = "ok", !.usersFetch = "sent"]]
    /\ sessionLoading' = [sessionLoading EXCEPT ![s] = FALSE]
    /\ UNCHANGED <<pickerUsers, toast, storage, route>>
    /\ homeUnchangedModal /\ homeUnchangedAuth
    /\ UNCHANGED <<pureVars, launchVars, profileVars, fetches>>

\* the select of fetchUsers answers: setUsers(data || [])
FetchUsersOk(s) ==
    /\ homeCheck[s].usersFetch = "sent"
    /\ homeCheck' = [homeCheck EXCEPT ![s].usersFetch = "done"]
    /\ pickerUsers' = [pickerUsers EXCEPT ![s] = {u.id : u \in users}]
    /\ UNCHANGED <<sessionLoading, isAdmin, lbInFlight, toast, storage, route>>
    /\ homeUnchangedModal /\ homeUnchangedAuth
    /\ UNCHANGED <<pureVars, launchVars, profileVars, fetches>>

\* the select of fetchUsers fails: throw, catch, error toast
FetchUsersFail(s) ==
    /\ homeCheck[s].usersFetch = "sent"
    /\ homeCheck' = [homeCheck EXCEPT ![s].usersFetch = "done"]
    /\ toast' = [toast EXCEPT ![s] = "users_error"]
    /\ UNCHANGED <<sessionLoading, pickerUsers, isAdmin, lbInFlight, storage, route>>
    /\ homeUnchangedModal /\ homeUnchangedAuth
    /\ UNCHANGED <<pureVars, launchVars, profileVars, fetches>>

\* a users row deleted at the backend, which no screen of the app does
UserRemoved(id) ==
    /\ \E u \in users : u.id = id
    /\ users' = {u \in users : u.id # id}
    /\ UNCHANGED <<sales, pc, req, formData, formErrors, modalVisible, submitting,
                   isAdmin, leaderboard, loading, refreshing, lbInFlight, toast,
                   lbResult, path, applied>>
    /\ UNCHANGED <<pureVars, authVars, appVars>>

(***************************************************************************)
(* ProfilePage: loadUserProfile, handleUpdateName, handleChangePassword.   *)
(* One handler runs at a time: Save and Change Password are both disabled  *)
(* while updating.                                                         *)
(***************************************************************************)
NoProfile == [id |-> "", name |-> <<>>, is_admin |-> FALSE]

EmptyProfileForm == [name |-> <<>>, currentPassword |-> <<>>, newPassword |-> <<>>,
                     confirmPassword |-> <<>>]

NoProfReq == [userId |-> "", name |-> <<>>, currentPassword |-> <<>>,
              newPassword |-> <<>>, result |-> "none"]

NotEditing == [name |-> FALSE, password |-> FALSE]

profUnchangedHome ==
    UNCHANGED <<sales, pc, req, formData, formErrors, modalVisible, submitting,
                isAdmin, leaderboard, loading, refreshing, lbInFlight, lbResult,
                path, applied>>

profUnchangedAuth ==
    UNCHANGED <<authPc, authReq, authFormData, authErrors, authLoading>>

\* the Profile tab is opened: the page mounts and loadUserProfile() runs
OpenProfile(s) ==
    /\ route[DeviceOf(s)] = "(tabs)"
    /\ profPc[s] = "unmounted"
    /\ profPc' = [profPc EXCEPT ![s] = "getItem"]
    /\ UNCHANGED <<profReq, userProfile, profForm, profErrors, updating, profLoading,
                   editing, users, toast, storage, route>>
    /\ profUnchangedHome /\ profUnchangedAuth
    /\ UNCHANGED <<pureVars, launchVars, checkVars, fetches>>

\* AsyncStorage.getItem('userId') answers with a stored id: the lookup is sent
LoadProfileGetItem(s) ==
    /\ profPc[s] = "getItem"
    /\ storage[DeviceOf(s)].userId # ""
    /\ profPc' = [profPc EXCEPT ![s] = "lookup"]
    /\ profReq' = [profReq EXCEPT ![s] = [@ EXCEPT !.userId = storage[DeviceOf(s)].userId]]
    /\ UNCHANGED <<userProfile, profForm, profErrors, updating, profLoading, editing,
                   users, toast, storage, route>>
    /\ profUnchangedHome /\ profUnchangedAuth
    /\ UNCHANGED <<pureVars, launchVars, checkVars, fetches>>

\* an end of loadUserProfile without a profile
LoadProfileEnds(s, res, msg, store, screen) ==
    /\ profPc' = [profPc EXCEPT ![s] = "idle"]
    /\ profReq' = [profReq EXCEPT ![s] = [NoProfReq EXCEPT !.result = res]]
    /\ toast' = [toast EXCEPT ![s] = msg]
    /\ storage' = [storage EXCEPT ![DeviceOf(s)] = store]
    /\ route' = [route EXCEPT ![DeviceOf(s)] = screen]
    /\ profLoading' = [profLoading EXCEPT ![s] = FALSE]
    /\ UNCHANGED <<userProfile, profForm, profErrors, updating, editing, users>>
    /\ profUnchangedHome /\ profUnchangedAuth
    /\ UNCHANGED <<pureVars, launchVars, checkVars, fetches>>

\* no userId is stored: 'Session Expired', router.replace('/auth')
LoadProfileNoUserId(s) ==
    /\ profPc[s] = "getItem"
    /\ storage[DeviceOf(s)].userId = ""
    /\ LoadProfileEnds(s, "noId", "session_expired", storage[DeviceOf(s)], "auth")

\* AsyncStorage.getItem throws: catch { console.error, Toast }, the route stays
LoadProfileThrows(s) ==
    /\ profPc[s] = "getItem"
    /\ LoadProfileEnds(s, "threw", "profile_load_error", storage[DeviceOf(s)],
                       route[DeviceOf(s)])

\* userError || !userData: the read failed or no row has the stored id
LoadProfileLookupFail(s) ==
    /\ profPc[s] = "lookup"
    /\ LoadProfileEnds(s, "failed", "profile_data_error",
                       removeUserId(storage[DeviceOf(s)]), "auth")

\* the row of the stored id: setUserProfile, the name field is filled in
LoadProfileOk(s) ==
    /\ profPc[s] = "lookup"
    /\ Cardinality({u \in users : u.id = profReq[s].userId}) = 1
    /\ \E u \in users :
          /\ u.id = profReq[s].userId
          /\ userProfile' = [userProfile EXCEPT ![s] =
                                [id |-> u.id, name |-> u.name, is_admin |-> u.is_admin]]
          /\ profForm' = [profForm EXCEPT ![s].name = u.name]
    /\ profPc' = [profPc EXCEPT ![s] = "idle"]
    /\ profReq' = [profReq EXCEPT ![s] = [NoProfReq EXCEPT !.result = "ok"]]
    /\ profLoading' = [profLoading EXCEPT ![s] = FALSE]
    /\ UNCHANGED <<profErrors, updating, editing, users, toast, storage, route>>
    /\ profUnchangedHome /\ profUnchangedAuth
    /\ UNCHANGED <<pureVars, launchVars, checkVars, fetches>>

\* the forms of the page are rendered and their buttons enabled
ProfileShown(s) ==
    /\ route[DeviceOf(s)] = "(tabs)"
    /\ profPc[s] = "idle"
    /\ ~profLoading[s]
    /\ userProfile[s] # NoProfile
    /\ ~updating[s]

\* the fields validateNameForm puts a message on
validateNameErrors(fd) ==
    IF trim(fd.name) = <<>> \/ Len(trim(fd.name)) < 2 \/ Len(trim(fd.name)) > 50
    THEN {"name"} ELSE {}

\* the fields validatePasswordForm puts a message on
validatePasswordErrors(fd) ==
    (IF fd.currentPassword = <<>> THEN {"currentPassword"} ELSE {})
    \cup (IF fd.newPassword = <<>> \/ Len(fd.newPassword) < 6
             \/ fd.currentPassword = fd.newPassword
          THEN {"newPassword"} ELSE {})
    \cup (IF fd.confirmPassword = <<>> \/ fd.newPassword # fd.confirmPassword
          THEN {"confirmPassword"} ELSE {})

\* names typed into the name field
ProfileNames ==
    { <<" ">>, <<" ", "D", " ">>, <<" ", "D", "e">>, Rep("n", 51) }

\* what may be in the password fields when Change Password is pressed
PasswordForms ==
    { [currentPassword |-> cur, newPassword |-> new, confirmPassword |-> conf] :
        <<cur, new, conf>> \in
          { <<User1.password, Rep("v", 6), Rep("v", 6)>>,
            <<Rep("q", 6), Rep("v", 6), Rep("v", 6)>>,
            <<User1.password, Rep("v", 5), Rep("v", 5)>>,
            <<User1.password, Rep("v", 6), Rep("v", 7)>>,
            <<User1.password, User1.password, User1.password>>,
            <<<<>>, Rep("v", 6), Rep("v", 6)>> } }

\* ProfileInvalid, had the handler set its busy flag before validating
ProfileInvalidBusy(s, fd, errs, ed) ==
    /\ profForm' = [profForm EXCEPT ![s] = fd]
    /\ profErrors' = [profErrors EXCEPT ![s] = errs]
    /\ editing' = [editing EXCEPT ![s] = ed]
    /\ updating' = [updating EXCEPT ![s] = TRUE]
    /\ UNCHANGED <<profPc, profReq, userProfile, profLoading, users, toast,
                   storage, route>>
    /\ profUnchangedHome /\ profUnchangedAuth
    /\ UNCHANGED <<pureVars, launchVars, checkVars, fetches>>

\* an early return of a profile handler on a failed validation
ProfileInvalid(s, fd, errs, ed) ==
    /\ profForm' = [profForm EXCEPT ![s] = fd]
    /\ profErrors' = [profErrors EXCEPT ![s] = errs]
    /\ editing' = [editing EXCEPT ![s] = ed]
    /\ UNCHANGED <<profPc, profReq, userProfile, updating, profLoading, users, toast,
                   storage, route>>
    /\ profUnchangedHome /\ profUnchangedAuth
    /\ UNCHANGED <<pureVars, launchVars, checkVars, fetches>>

\* Save pressed with a name that fails validateNameForm
UpdateNameInvalid(s, name) ==
    /\ ProfileShown(s)
    /\ validateNameErrors([profForm[s] EXCEPT !.name = name]) # {}
    /\ ProfileInvalid(s, [profForm[s] EXCEPT !.name = name],
                      validateNameErrors([profForm[s] EXCEPT !.name = name]),
                      [editing[s] EXCEPT !.name = TRUE])

\* a profile handler sets updating and sends its first call
ProfileStart(s, fd, ed, at, r) ==
    /\ profForm' = [profForm EXCEPT ![s] = fd]
    /\ profErrors' = [profErrors EXCEPT ![s] = {}]
    /\ editing' = [editing EXCEPT ![s] = ed]
    /\ updating' = [updating EXCEPT ![s] = TRUE]
    /\ profPc' = [profPc EXCEPT ![s] = at]
    /\ profReq' = [profReq EXCEPT ![s] = r]
    /\ UNCHANGED <<userProfile, profLoading, users, toast, storage, route>>
    /\ profUnchangedHome /\ profUnchangedAuth
    /\ UNCHANGED <<pureVars, launchVars, checkVars, fetches>>

\* Save pressed with a valid name: the update is sent
UpdateNameStart(s, name) ==
    /\ ProfileShown(s)
    /\ validateNameErrors([profForm[s] EXCEPT !.name = name]) = {}
    /\ ProfileStart(s, [profForm[s] EXCEPT !.name = name],
                    [editing[s] EXCEPT !.name = TRUE], "updateName",
                    [NoProfReq EXCEPT !.userId = userProfile[s].id, !.name = trim(name)])

\* ProfileFailed, had the handler no finally block
ProfileFailedBusy(s, msg) ==
    /\ toast' = [toast EXCEPT ![s] = msg]
    /\ profPc' = [profPc EXCEPT ![s] = "idle"]
    /\ profReq' = [profReq EXCEPT ![s] = [NoProfReq EXCEPT !.result = "failed"]]
    /\ UNCHANGED <<userProfile, profForm, profErrors, profLoading, editing, users,
                   storage, route, updating>>
    /\ profUnchangedHome /\ profUnchangedAuth
    /\ UNCHANGED <<pureVars, launchVars, checkVars, fetches>>

\* the catch and finally blocks of a profile handler
ProfileFailed(s, msg) ==
    /\ toast' = [toast EXCEPT ![s] = msg]
    /\ updating' = [updating EXCEPT ![s] = FALSE]
    /\ profPc' = [profPc EXCEPT ![s] = "idle"]
    /\ profReq' = [profReq EXCEPT ![s] = [NoProfReq EXCEPT !.result = "failed"]]
    /\ UNCHANGED <<userProfile, profForm, profErrors, profLoading, editing, users,
                   storage, route>>
    /\ profUnchangedHome /\ profUnchangedAuth
    /\ UNCHANGED <<pureVars, launchVars, checkVars, fetches>>

\* .update({ name }).eq('id', id) succeeds: every row with that id is changed
UpdateNameOk(s) ==
    /\ profPc[s] = "updateName"
    /\ users' = {IF u.id = profReq[s].userId THEN [u EXCEPT !.name = profReq[s].name]
                 ELSE u : u \in users}
    /\ userProfile' = [userProfile EXCEPT ![s] = [@ EXCEPT !.name = profReq[s].name]]
    /\ editing' = [editing EXCEPT ![s] = [@ EXCEPT !.name = FALSE]]
    /\ toast' = [toast EXCEPT ![s] = "profile_updated"]
    /\ updating' = [updating EXCEPT ![s] = FALSE]
    /\ profPc' = [profPc EXCEPT ![s] = "idle"]
    /\ profReq' = [profReq EXCEPT ![s] = [NoProfReq EXCEPT !.result = "ok"]]
    /\ UNCHANGED <<profForm, profErrors, profLoading, storage, route>>
    /\ profUnchangedHome /\ profUnchangedAuth
    /\ UNCHANGED <<pureVars, launchVars, checkVars, fetches>>

\* the update fails: throw error, catch, finally
UpdateNameFail(s) ==
    /\ profPc[s] = "updateName"
    /\ ProfileFailed(s, "profile_update_error")

\* Change Password pressed with fields that fail validatePasswordForm
ChangePasswordInvalid(s, pf) ==
    /\ ProfileShown(s)
    /\ LET fd == [profForm[s] EXCEPT !.currentPassword = pf.currentPassword,
                                     !.newPassword = pf.newPassword,
                                     !.confirmPassword = pf.confirmPassword]
       IN /\ validatePasswordErrors(fd) # {}
          /\ ProfileInvalid(s, fd, validatePasswordErrors(fd),
                            [editing[s] EXCEPT !.password = TRUE])

\* Change Password pressed with valid fields: the stored password is read
ChangePasswordStart(s, pf) ==
    /\ ProfileShown(s)
    /\ LET fd == [profForm[s] EXCEPT !.currentPassword = pf.currentPassword,
                                     !.newPassword = pf.newPassword,
                                     !.confirmPassword = pf.confirmPassword]
       IN /\ validatePasswordErrors(fd) = {}
          /\ ProfileStart(s, fd, [editing[s] EXCEPT !.password = TRUE], "verify",
                          [NoProfReq EXCEPT !.userId = userProfile[s].id,
                                            !.currentPassword = fd.currentPassword,
                                            !.newPassword = fd.newPassword])

\* the read fails or finds no single row: throw verifyError
ChangePasswordVerifyFail(s) ==
    /\ profPc[s] = "verify"
    /\ ProfileFailed(s, "password_change_error")

\* the stored password differs from the one entered: field message, return
ChangePasswordWrong(s) ==
    /\ profPc[s] = "verify"
    /\ Cardinality({u \in users : u.id = profReq[s].userId}) = 1
    /\ \E u \in users : u.id = profReq[s].userId
                        /\ u.password # profReq[s].currentPassword
    /\ profErrors' = [profErrors EXCEPT ![s] = {"currentPassword"}]
    /\ updating' = [updating EXCEPT ![s] = FALSE]
    /\ profPc' = [profPc EXCEPT ![s] = "idle"]
    /\ profReq' = [profReq EXCEPT ![s] = [NoProfReq EXCEPT !.result = "wrong"]]
    /\ UNCHANGED <<userProfile, profForm, profLoading, editing, users, toast,
                   storage, route>>
    /\ profUnchangedHome /\ profUnchangedAuth
    /\ UNCHANGED <<pureVars, launchVars, checkVars, fetches>>

\* ChangePasswordVerified, had the handler not compared the password it read
ChangePasswordVerifiedAnyway(s) ==
    /\ profPc[s] = "verify"
    /\ Cardinality({u \in users : u.id = profReq[s].userId}) = 1
    /\ profPc' = [profPc EXCEPT ![s] = "pwUpdate"]
    /\ UNCHANGED <<profReq, userProfile, profForm, profErrors, updating, profLoading,
                   editing, users, toast, storage, route>>
    /\ profUnchangedHome /\ profUnchangedAuth
    /\ UNCHANGED <<pureVars, launchVars, checkVars, fetches>>

\* the stored password is the one entered: the update is sent
ChangePasswordVerified(s) ==
    /\ profPc[s] = "verify"
    /\ Cardinality({u \in users : u.id = profReq[s].userId}) = 1
    /\ \E u \in users : u.id = profReq[s].userId
                        /\ u.password = profReq[s].currentPassword
    /\ profPc' = [profPc EXCEPT ![s] = "pwUpdate"]
    /\ UNCHANGED <<profReq, userProfile, profForm, profErrors, updating, profLoading,
                   editing, users, toast, storage, route>>
    /\ profUnchangedHome /\ profUnchangedAuth
    /\ UNCHANGED <<pureVars, launchVars, checkVars, fetches>>

\* .update({ password }).eq('id', id) succeeds: fields reset, success toast
ChangePasswordOk(s) ==
    /\ profPc[s] = "pwUpdate"
    /\ users' = {IF u.id = profReq[s].userId
                 THEN [u EXCEPT !.password = profReq[s].newPassword]
                 ELSE u : u \in users}
    /\ profForm' = [profForm EXCEPT ![s] =
                       [@ EXCEPT !.currentPassword = <<>>, !.newPassword = <<>>,
                                 !.confirmPassword = <<>>]]
    /\ editing' = [editing EXCEPT ![s] = [@ EXCEPT !.password = FALSE]]
    /\ toast' = [toast EXCEPT ![s] = "password_changed"]
    /\ updating' = [updating EXCEPT ![s] = FALSE]
    /\ profPc' = [profPc EXCEPT ![s] = "idle"]
    /\ profReq' = [profReq EXCEPT ![s] = [NoProfReq EXCEPT !.result = "ok"]]
    /\ UNCHANGED <<userProfile, profErrors, profLoading, storage, route>>
    /\ profUnchangedHome /\ profUnchangedAuth
    /\ UNCHANGED <<pureVars, launchVars, checkVars, fetches>>

\* the update fails: throw updateError, catch, finally
ChangePasswordUpdateFail(s) ==
    /\ profPc[s] = "pwUpdate"
    /\ ProfileFailed(s, "password_change_error")

(***************************************************************************)
(* The two logout controls.  A run of a logout handler is taken as one     *)
(* step per outcome: the handler writes nothing but the session store, the *)
(* toast and the route, and no other handler writes the store while a      *)
(* screen of the tabs is shown.                                            *)
(***************************************************************************)
\* an end of a logout handler
LogoutEnds(s, store, msg, screen) ==
    /\ storage' = [storage EXCEPT ![DeviceOf(s)] = store]
    /\ toast' = [toast EXCEPT ![s] = msg]
    /\ route' = [route EXCEPT ![DeviceOf(s)] = screen]
    /\ UNCHANGED <<users, profPc, profReq, userProfile, profForm, profErrors, updating,
                   profLoading, editing>>
    /\ profUnchangedHome /\ profUnchangedAuth
    /\ UNCHANGED <<pureVars, launchVars, checkVars, fetches>>

\* TabLayout.handleLogout, both removeItem calls return: 'Logged Out',
\* router.replace('/auth')
TabLogoutOk(s) ==
    /\ route[DeviceOf(s)] = "(tabs)"
    /\ LogoutEnds(s, [removeUserId(storage[DeviceOf(s)]) EXCEPT !.userName = <<>>],
                  "logged_out", "auth")

\* TabLayout.handleLogout, the first or the second removeItem throws: catch,
\* 'Logout Failed', the route stays
TabLogoutFail(s) ==
    /\ route[DeviceOf(s)] = "(tabs)"
    /\ \E store \in {storage[DeviceOf(s)], removeUserId(storage[DeviceOf(s)])} :
          LogoutEnds(s, store, "logout_failed", route[DeviceOf(s)])

\* ProfilePage.handleLogout, 'Logout' chosen in the alert and removeItem
\* returns: only userId is removed, 'Logged Out', router.replace('/auth')
ProfileLogoutOk(s) ==
    /\ ProfileShown(s)
    /\ LogoutEnds(s, removeUserId(storage[DeviceOf(s)]), "logged_out", "auth")

\* ProfilePage.handleLogout, removeItem throws: catch, 'Error', the route stays
ProfileLogoutFail(s) ==
    /\ ProfileShown(s)
    /\ LogoutEnds(s, storage[DeviceOf(s)], "logout_error", route[DeviceOf(s)])

(***************************************************************************)
(* fetchLeaderboard call by call: the backend evaluates the select of a    *)
(* call at some moment after it was sent, and the responses of the calls   *)
(* in flight arrive in any order.                                          *)
(***************************************************************************)
NoFetches == [inFlight |-> <<>>, started |-> 0,
              newest |-> [n |-> 0, ok |-> FALSE, data |-> <<>>]]

\* the call checkSession made is in flight
FirstFetch == [inFlight |-> << [n |-> 1, read |-> FALSE, data |-> <<>>] >>, started |-> 1,
               newest |-> [n |-> 0, ok |-> FALSE, data |-> <<>>]]

RemoveAt(q, i) == SubSeq(q, 1, i - 1) \o SubSeq(q, i + 1, Len(q))

fetchUnchangedModal ==
    UNCHANGED <<users, sales, pc, req, formData, formErrors, modalVisible, submitting,
                isAdmin, path, applied>>

\* onRefresh with its fetchLeaderboard() tracked as a call of its own
RefreshStart(s) ==
    /\ ~modalVisible[s]
    /\ pc[s] = "idle"
    /\ fetches[s].started < MaxFetches
    /\ refreshing' = [refreshing EXCEPT ![s] = TRUE]
    /\ loading' = [loading EXCEPT ![s] = TRUE]
    /\ lbInFlight' = [lbInFlight EXCEPT ![s] = @ + 1]
    /\ fetches' = [fetches EXCEPT ![s] =
                      [@ EXCEPT !.started = @ + 1,
                                !.inFlight = Append(@, [n |-> fetches[s].started + 1,
                                                        read |-> FALSE, data |-> <<>>])]]
    /\ UNCHANGED <<leaderboard, toast, lbResult>>
    /\ fetchUnchangedModal
    /\ UNCHANGED <<pureVars, authVars, launchVars, checkVars, profileVars>>

\* the backend evaluates the select of the i-th call in flight
FetchRead(s, i) ==
    /\ i \in 1..Len(fetches[s].inFlight)
    /\ ~fetches[s].inFlight[i].read
    /\ \E d \in LeaderboardSelect :
          fetches' = [fetches EXCEPT ![s].inFlight[i] =
                         [@ EXCEPT !.read = TRUE, !.data = d]]
    /\ UNCHANGED <<leaderboard, loading, refreshing, lbInFlight, toast, lbResult>>
    /\ fetchUnchangedModal
    /\ UNCHANGED <<pureVars, authVars, launchVars, checkVars, profileVars>>

\* the completed call with the greatest number
newestOf(f, n, ok, d) ==
    IF n > f.newest.n THEN [n |-> n, ok |-> ok, data |-> d] ELSE f.newest

\* the response of the i-th call in flight arrives: setLeaderboard, finally
FetchDeliver(s, i) ==
    /\ i \in 1..Len(fetches[s].inFlight)
    /\ fetches[s].inFlight[i].read
    /\ leaderboard' = [leaderboard EXCEPT ![s] = RankedData(fetches[s].inFlight[i].data)]
    /\ loading' = [loading EXCEPT ![s] = FALSE]
    /\ refreshing' = [refreshing EXCEPT ![s] = FALSE]
    /\ lbInFlight' = [lbInFlight EXCEPT ![s] = @ - 1]
    /\ lbResult' = [lbResult EXCEPT ![s] = "ok"]
    /\ fetches' = [fetches EXCEPT ![s] =
                      [@ EXCEPT !.inFlight = RemoveAt(@, i),
                                !.newest = newestOf(fetches[s], fetches[s].inFlight[i].n,
                                                    TRUE, fetches[s].inFlight[i].data)]]
    /\ UNCHANGED toast
    /\ fetchUnchangedModal
    /\ UNCHANGED <<pureVars, authVars, launchVars, checkVars, profileVars>>

\* the i-th call in flight fails: error toast, finally
FetchDeliverError(s, i) ==
    /\ i \in 1..Len(fetches[s].inFlight)
    /\ toast' = [toast EXCEPT ![s] = "leaderboard_error"]
    /\ loading' = [loading EXCEPT ![s] = FALSE]
    /\ refreshing' = [refreshing EXCEPT ![s] = FALSE]
    /\ lbInFlight' = [lbInFlight EXCEPT ![s] = @ - 1]
    /\ lbResult' = [lbResult EXCEPT ![s] = "error"]
    /\ fetches' = [fetches EXCEPT ![s] =
                      [@ EXCEPT !.inFlight = RemoveAt(@, i),
                                !.newest = newestOf(fetches[s], fetches[s].inFlight[i].n,
                                                    FALSE, <<>>)]]
    /\ UNCHANGED leaderboard
    /\ fetchUnchangedModal
    /\ UNCHANGED <<pureVars, authVars, launchVars, checkVars, profileVars>>

\* UpsertOkCalling without the fetchLeaderboard() after resetModal()
UpsertOkNotCalling(s) ==
    /\ UpsertOkWrite(s, 0)
    /\ UNCHANGED appVars

\* the successful upsert with its fetchLeaderboard() tracked as a call of its own
UpsertOkCalling(s) ==
    /\ UpsertOkWrite(s, 1)
    /\ fetches' = [fetches EXCEPT ![s] =
                      [@ EXCEPT !.started = @ + 1,
                                !.inFlight = Append(@, [n |-> fetches[s].started + 1,
                                                        read |-> FALSE, data |-> <<>>])]]
    /\ UNCHANGED <<launchVars, checkVars, profileVars>>

(***************************************************************************)
(* Initial states.                                                         *)
(***************************************************************************)
PureIdle ==
    /\ data = <<>>
    /\ rankedData = <<>>
    /\ zoneIn = 0
    /\ zoneOut = ""

AuthIdle ==
    /\ authPc = [d \in Devices |-> "idle"]
    /\ authReq = [d \in Devices |-> NoAuthReq]
    /\ authFormData = [d \in Devices |-> EmptyAuthForm]
    /\ authErrors = [d \in Devices |-> NoErrors]
    /\ authLoading = [d \in Devices |-> FALSE]
    /\ storage = [d \in Devices |-> NoSession]
    /\ route = [d \in Devices |-> "auth"]

\* RootLayout has rendered the navigator
LaunchIdle ==
    /\ loaded = [d \in Devices |-> TRUE]
    /\ rootRun = [d \in Devices |-> [r \in Runs |-> NoRun]]
    /\ isCheckingSession = [d \in Devices |-> FALSE]
    /\ initialRoute = [d \in Devices |-> "auth"]

\* the Profile tab has not been opened
ProfileIdle ==
    /\ profPc = [s \in Sessions |-> "unmounted"]
    /\ profReq = [s \in Sessions |-> NoProfReq]
    /\ userProfile = [s \in Sessions |-> NoProfile]
    /\ profForm = [s \in Sessions |-> EmptyProfileForm]
    /\ profErrors = [s \in Sessions |-> {}]
    /\ updating = [s \in Sessions |-> FALSE]
    /\ profLoading = [s \in Sessions |-> TRUE]
    /\ editing = [s \in Sessions |-> NotEditing]

\* the session checks of the home screens have found u1 and u2, and their
\* fetchUsers have answered
ChecksDone ==
    /\ homeCheck = [s \in Sessions |-> HomeChecked(IF s = "A" THEN "u1" ELSE "u2")]
    /\ sessionLoading = [s \in Sessions |-> FALSE]
    /\ pickerUsers = [s \in Sessions |-> UserIds]

AppIdle ==
    /\ LaunchIdle
    /\ ChecksDone
    /\ ProfileIdle
    /\ fetches = [s \in Sessions |-> NoFetches]

\* sales tables the sessions may find at start
InitialSales ==
    { {}, {[user_id |-> "u1", month_year |-> CurrentMonth, connections |-> 1]} }

\* every session after a session check that found an admin and called
\* fetchLeaderboard()
SessionsInit ==
    /\ pc = [s \in Sessions |-> "idle"]
    /\ req = [s \in Sessions |-> NoReq]
    /\ formData = [s \in Sessions |-> EmptyForm]
    /\ formErrors = [s \in Sessions |-> {}]
    /\ modalVisible = [s \in Sessions |-> FALSE]
    /\ submitting = [s \in Sessions |-> FALSE]
    /\ isAdmin = [s \in Sessions |-> TRUE]
    /\ leaderboard = [s \in Sessions |-> <<>>]
    /\ loading = [s \in Sessions |-> TRUE]
    /\ refreshing = [s \in Sessions |-> FALSE]
    /\ lbInFlight = [s \in Sessions |-> 1]
    /\ toast = [s \in Sessions |-> "none"]
    /\ lbResult = [s \in Sessions |-> "none"]
    /\ path = [s \in Sessions |-> <<"Idle">>]

Init ==
    /\ users = SeedUsers
    /\ sales \in InitialSales
    /\ applied = [k \in Keys |-> Stored(k[1], k[2])]
    /\ SessionsInit
    /\ AppIdle
    /\ PureIdle
    /\ AuthIdle

(***************************************************************************)
(* Spec: two admin sessions submit concurrently.                           *)
(***************************************************************************)
Next ==
    \E s \in Sessions :
        \/ OpenModal(s)
        \/ \E fd \in RaceForms : HandleSubmitStart(s, fd)
        \/ SelectOk(s)
        \/ SelectFail(s)
        \/ UpsertOk(s)
        \/ UpsertFail(s)
        \/ FetchLeaderboardOk(s)

Spec == Init /\ [][Next]_vars

(***************************************************************************)
(* SpecSession: one admin session, every control of the home screen.       *)
(***************************************************************************)
NextSession ==
    \E s \in {"A"} :
        \/ OpenModal(s)
        \/ ResetModal(s)
        \/ \E fd \in Forms : HandleSubmitInvalid(s, fd)
        \/ \E fd \in Forms : HandleSubmitStart(s, fd)
        \/ SelectOk(s)
        \/ SelectFail(s)
        \/ UpsertOk(s)
        \/ UpsertFail(s)
        \/ OnRefresh(s)
        \/ FetchLeaderboardOk(s)
        \/ FetchLeaderboardFail(s)

SpecSession == Init /\ [][NextSession]_vars

(***************************************************************************)
(* SpecUpsert: one session whose selects succeed, so that a submission     *)
(* fails only at its upsert.                                               *)
(***************************************************************************)
NextUpsert ==
    \E s \in {"A"} :
        \/ OpenModal(s)
        \/ \E fd \in Forms : HandleSubmitInvalid(s, fd)
        \/ \E fd \in Forms : HandleSubmitStart(s, fd)
        \/ SelectOk(s)
        \/ UpsertOk(s)
        \/ UpsertFail(s)
        \/ FetchLeaderboardOk(s)

SpecUpsert == Init /\ [][NextUpsert]_vars

(***************************************************************************)
(* SpecSeq: submissions one after another, every backend call succeeding.  *)
(***************************************************************************)
InitSeq == Init /\ sales = {}

NoOtherSubmission(s) == \A t \in Sessions \ {s} : pc[t] = "idle"

NextSeq ==
    \E s \in Sessions :
        \/ OpenModal(s)
        \/ NoOtherSubmission(s) /\ \E fd \in Forms : HandleSubmitStart(s, fd)
        \/ SelectOk(s)
        \/ UpsertOk(s)
        \/ FetchLeaderboardOk(s)

SpecSeq == InitSeq /\ [][NextSeq]_vars

(***************************************************************************)
(* SpecPure: the rank assignment and the zone classification.              *)
(***************************************************************************)
InitPure ==
    /\ users = SeedUsers
    /\ sales = {}
    /\ applied = [k \in Keys |-> 0]
    /\ SessionsInit
    /\ AppIdle
    /\ AuthIdle
    /\ PureInit

NextPure == ApplyRank \/ ApplyZone

SpecPure == InitPure /\ [][NextPure]_vars

(***************************************************************************)
(* SpecAuth: two devices register against a users table holding one user.  *)
(***************************************************************************)
InitAuth ==
    /\ users = {User1}
    /\ sales = {}
    /\ applied = [k \in Keys |-> 0]
    /\ SessionsInit
    /\ AppIdle
    /\ PureIdle
    /\ AuthIdle

NextAuth ==
    \E d \in Devices :
        \/ \E fd \in AuthForms : RegisterInvalid(d, fd)
        \/ \E fd \in AuthForms : RegisterStart(d, fd)
        \/ CheckPhoneFound(d)
        \/ CheckPhoneNull(d)
        \/ CheckIdFound(d)
        \/ CheckIdNull(d)
        \/ InsertOk(d)
        \/ InsertFail(d)

SpecAuth == InitAuth /\ [][NextAuth]_vars

(***************************************************************************)
(* SpecPhone: one device on the auth screen; the phone field is filled in  *)
(* through onChangeText and the form is submitted as a login or as a       *)
(* registration.                                                           *)
(***************************************************************************)
\* the registration form around the phone field of device d
TypedRegisterForm(d, id) == AuthForm(id, authFormData[d].phoneNumber, Rep("z", 6))

\* the login form around the phone field of device d
TypedLoginForm(d, pw) == LoginForm(authFormData[d].phoneNumber, pw)

NextPhone ==
    \E d \in {"D1"} :
        \/ \E text \in PhoneEdits(authFormData[d].phoneNumber) : ChangePhoneText(d, text)
        \/ \E id \in {NewId, User1.id_number} : RegisterInvalid(d, TypedRegisterForm(d, id))
        \/ \E id \in {NewId, User1.id_number} : RegisterStart(d, TypedRegisterForm(d, id))
        \/ CheckPhoneFound(d)
        \/ CheckPhoneNull(d)
        \/ CheckIdFound(d)
        \/ CheckIdNull(d)
        \/ InsertOk(d)
        \/ InsertFail(d)
        \/ \E pw \in {User1.password, Rep("z", 6)} : LoginInvalid(d, TypedLoginForm(d, pw))
        \/ \E pw \in {User1.password, Rep("z", 6)} : LoginStart(d, TypedLoginForm(d, pw))
        \/ LoginNotFound(d)
        \/ LoginWrongPassword(d)
        \/ LoginOk(d)

SpecPhone == InitAuth /\ [][NextPhone]_vars

(***************************************************************************)
(* SpecTabs: one device that has just entered the tabs with a stored       *)
(* session, of an admin or of an agent.  HomePage has mounted and its      *)
(* checkSession is running; the Profile tab may be opened at any time and  *)
(* loads the profile.  The visit ends when a screen replaces the route by  *)
(* /auth.                                                                  *)
(***************************************************************************)
\* the state HomePage mounts with
HomeFresh ==
    /\ pc = [s \in Sessions |-> "idle"]
    /\ req = [s \in Sessions |-> NoReq]
    /\ formData = [s \in Sessions |-> EmptyForm]
    /\ formErrors = [s \in Sessions |-> {}]
    /\ modalVisible = [s \in Sessions |-> FALSE]
    /\ submitting = [s \in Sessions |-> FALSE]
    /\ isAdmin = [s \in Sessions |-> FALSE]
    /\ leaderboard = [s \in Sessions |-> <<>>]
    /\ loading = [s \in Sessions |-> TRUE]
    /\ refreshing = [s \in Sessions |-> FALSE]
    /\ lbInFlight = [s \in Sessions |-> 0]
    /\ toast = [s \in Sessions |-> "none"]
    /\ lbResult = [s \in Sessions |-> "none"]
    /\ path = [s \in Sessions |-> <<"Idle">>]
    /\ sessionLoading = [s \in Sessions |-> TRUE]
    /\ pickerUsers = [s \in Sessions |-> {}]
    /\ fetches = [s \in Sessions |-> NoFetches]

\* what handleLogin stored for a user
SessionFor(u) == [userId |-> u.id, userName |-> u.name]

InitTabs ==
    /\ users = SeedUsers \cup {User3}
    /\ sales = {}
    /\ applied = [k \in Keys |-> 0]
    /\ HomeFresh
    /\ homeCheck = [s \in Sessions |->
                      IF s = "A" THEN HomeMounted
                      ELSE [HomeMounted EXCEPT !.pc = "unmounted"]]
    /\ ProfileIdle
    /\ LaunchIdle
    /\ PureIdle
    /\ authPc = [d \in Devices |-> "idle"]
    /\ authReq = [d \in Devices |-> NoAuthReq]
    /\ authFormData = [d \in Devices |-> EmptyAuthForm]
    /\ authErrors = [d \in Devices |-> NoErrors]
    /\ authLoading = [d \in Devices |-> FALSE]
    /\ \E u \in {User1, User3} :
          storage = [d \in Devices |-> IF d = "D1" THEN SessionFor(u) ELSE NoSession]
    /\ route = [d \in Devices |-> IF d = "D1" THEN "(tabs)" ELSE "auth"]

\* the home screen is rendered: the route is the tabs and sessionLoading is over
HomeShown(s) == route[DeviceOf(s)] = "(tabs)" /\ ~sessionLoading[s]

\* what the admin may have entered when Submit is pressed on this visit
TabsForms ==
    { Form("", <<"1">>, Today),
      Form("u2", <<"1">>, Today) }

NextTabs ==
    \E s \in {"A"} :
        \/ CheckSessionGetItem(s)
        \/ CheckSessionNoUserId(s)
        \/ CheckSessionThrows(s)
        \/ CheckSessionLookupFail(s)
        \/ CheckSessionOk(s)
        \/ FetchUsersOk(s)
        \/ FetchUsersFail(s)
        \/ FetchLeaderboardOk(s)
        \/ FetchLeaderboardFail(s)
        \/ HomeShown(s) /\ OpenModal(s)
        \/ HomeShown(s) /\ \E fd \in TabsForms : HandleSubmitInvalid(s, fd)
        \/ HomeShown(s) /\ \E fd \in TabsForms :
              fd.user_id \in pickerUsers[s] /\ HandleSubmitStart(s, fd)
        \/ SelectOk(s)
        \/ SelectFail(s)
        \/ UpsertOk(s)
        \/ UpsertFail(s)
        \/ UserRemoved("u2")
        \/ OpenProfile(s)
        \/ LoadProfileGetItem(s)
        \/ LoadProfileNoUserId(s)
        \/ LoadProfileThrows(s)
        \/ LoadProfileLookupFail(s)
        \/ LoadProfileOk(s)

SpecTabs == InitTabs /\ [][NextTabs]_vars

(***************************************************************************)
(* SpecLaunch: one device is launched with an empty session store, logs in *)
(* on the auth screen and is launched again; the row of the logged-in user *)
(* may be deleted at the backend in between.                               *)
(***************************************************************************)
InitLaunch ==
    /\ users = SeedUsers
    /\ sales = {}
    /\ applied = [k \in Keys |-> 0]
    /\ HomeFresh
    /\ homeCheck = [s \in Sessions |-> [HomeMounted EXCEPT !.pc = "unmounted"]]
    /\ ProfileIdle
    /\ PureIdle
    /\ authPc = [d \in Devices |-> "idle"]
    /\ authReq = [d \in Devices |-> NoAuthReq]
    /\ authFormData = [d \in Devices |-> EmptyAuthForm]
    /\ authErrors = [d \in Devices |-> NoErrors]
    /\ authLoading = [d \in Devices |-> FALSE]
    /\ storage = [d \in Devices |-> NoSession]
    /\ route = [d \in Devices |-> IF d = "D1" THEN "splash" ELSE "auth"]
    /\ loaded = [d \in Devices |-> d # "D1"]
    /\ rootRun = [d \in Devices |->
                    [r \in Runs |-> IF d = "D1" /\ r = 1 THEN FirstRun ELSE NoRun]]
    /\ isCheckingSession = [d \in Devices |-> d = "D1"]
    /\ initialRoute = [d \in Devices |-> "auth"]

NextLaunch ==
    \E d \in {"D1"} :
        \/ FontsLoaded(d)
        \/ \E r \in Runs : RootGetItem(d, r)
        \/ \E r \in Runs : RootNoUserId(d, r)
        \/ \E r \in Runs : RootGetItemThrows(d, r)
        \/ \E r \in Runs : RootLookupUser(d, r)
        \/ \E r \in Runs : RootLookupNoUser(d, r)
        \/ \E r \in Runs : RootLookupError(d, r)
        \/ \E fd \in LoginForms : LoginInvalid(d, fd)
        \/ \E fd \in LoginForms : LoginStart(d, fd)
        \/ LoginNotFound(d)
        \/ LoginWrongPassword(d)
        \/ LoginOk(d)
        \/ Relaunch(d)
        \/ UserRemoved("u1")

SpecLaunch == InitLaunch /\ [][NextLaunch]_vars

(***************************************************************************)
(* SpecForms: the five handlers behind a validated form.  Device D1 is on  *)
(* the tabs as the admin u1, checked by HomePage and loaded by ProfilePage *)
(* (handleSubmit, handleUpdateName, handleChangePassword); device D2 is on *)
(* the auth screen (handleRegister, handleLogin).                          *)
(***************************************************************************)
\* ProfilePage has loaded the profile of u
ProfileLoaded(s, u) ==
    /\ profPc = [t \in Sessions |-> IF t = s THEN "idle" ELSE "unmounted"]
    /\ profReq = [t \in Sessions |->
                    IF t = s THEN [NoProfReq EXCEPT !.result = "ok"] ELSE NoProfReq]
    /\ userProfile = [t \in Sessions |->
                        IF t = s THEN [id |-> u.id, name |-> u.name, is_admin |-> u.is_admin]
                        ELSE NoProfile]
    /\ profForm = [t \in Sessions |->
                     IF t = s THEN [EmptyProfileForm EXCEPT !.name = u.name]
                     ELSE EmptyProfileForm]
    /\ profErrors = [t \in Sessions |-> {}]
    /\ updating = [t \in Sessions |-> FALSE]
    /\ profLoading = [t \in Sessions |-> t # s]
    /\ editing = [t \in Sessions |-> NotEditing]

\* HomePage of s has fetched the empty leaderboard and shows the Add Sales form
HomeWithModal(s) ==
    /\ pc = [t \in Sessions |-> "idle"]
    /\ req = [t \in Sessions |-> NoReq]
    /\ formData = [t \in Sessions |-> EmptyForm]
    /\ formErrors = [t \in Sessions |-> {}]
    /\ modalVisible = [t \in Sessions |-> t = s]
    /\ submitting = [t \in Sessions |-> FALSE]
    /\ isAdmin = [t \in Sessions |-> t = s]
    /\ leaderboard = [t \in Sessions |-> <<>>]
    /\ loading = [t \in Sessions |-> t # s]
    /\ refreshing = [t \in Sessions |-> FALSE]
    /\ lbInFlight = [t \in Sessions |-> 0]
    /\ toast = [t \in Sessions |-> "none"]
    /\ lbResult = [t \in Sessions |-> IF t = s THEN "ok" ELSE "none"]
    /\ path = [t \in Sessions |-> <<"Idle">>]

InitForms ==
    /\ users = SeedUsers
    /\ sales = {}
    /\ applied = [k \in Keys |-> 0]
    /\ HomeWithModal("A")
    /\ LaunchIdle
    /\ ChecksDone
    /\ ProfileLoaded("A", User1)
    /\ fetches = [s \in Sessions |-> NoFetches]
    /\ PureIdle
    /\ authPc = [d \in Devices |-> "idle"]
    /\ authReq = [d \in Devices |-> NoAuthReq]
    /\ authFormData = [d \in Devices |-> EmptyAuthForm]
    /\ authErrors = [d \in Devices |-> NoErrors]
    /\ authLoading = [d \in Devices |-> FALSE]
    /\ storage = [d \in Devices |-> IF d = "D1" THEN SessionFor(User1) ELSE NoSession]
    /\ route = [d \in Devices |-> IF d = "D1" THEN "(tabs)" ELSE "auth"]

\* the forms pressed in this specification
FormsNames == { <<" ", "D", " ">>, <<" ", "D", "e">> }

FormsPasswords ==
    { pf \in PasswordForms :
        <<pf.currentPassword, pf.newPassword>> \in
           { <<User1.password, Rep("v", 6)>>, <<User1.password, Rep("v", 5)>> } }

FormsRegister ==
    { AuthForm(NewId, NewPhone, Rep("z", 6)),
      AuthForm(NewId, User1.phone_number, Rep("z", 6)),
      AuthForm(User1.id_number, NewPhone, Rep("z", 6)),
      AuthForm(Rep("3", 7), NewPhone, Rep("z", 6)) }

FormsLogin ==
    { LoginForm(User1.phone_number, User1.password),
      LoginForm(User1.phone_number, Rep("x", 5)) }

\* one form is submitted at a time: a button is pressed when no handler of
\* either device, and no leaderboard fetch, is waiting for the backend
FormsQuiet ==
    /\ pc["A"] = "idle"
    /\ lbInFlight["A"] = 0
    /\ profPc["A"] = "idle"
    /\ authPc["D2"] = "idle"

NextForms ==
    \/ \E s \in {"A"} :
          \/ FormsQuiet /\ \E fd \in TabsForms : HandleSubmitInvalid(s, fd)
          \/ FormsQuiet /\ \E fd \in TabsForms : HandleSubmitStart(s, fd)
          \/ SelectOk(s)
          \/ SelectFail(s)
          \/ UpsertOk(s)
          \/ UpsertFail(s)
          \/ FetchLeaderboardOk(s)
          \/ FormsQuiet /\ \E name \in FormsNames : UpdateNameInvalid(s, name)
          \/ FormsQuiet /\ \E name \in FormsNames : UpdateNameStart(s, name)
          \/ UpdateNameOk(s)
          \/ UpdateNameFail(s)
          \/ FormsQuiet /\ \E pf \in FormsPasswords : ChangePasswordInvalid(s, pf)
          \/ FormsQuiet /\ \E pf \in FormsPasswords : ChangePasswordStart(s, pf)
          \/ ChangePasswordVerifyFail(s)
          \/ ChangePasswordWrong(s)
          \/ ChangePasswordVerified(s)
          \/ ChangePasswordOk(s)
          \/ ChangePasswordUpdateFail(s)
    \/ \E d \in {"D2"} :
          \/ FormsQuiet /\ \E fd \in FormsRegister : RegisterInvalid(d, fd)
          \/ FormsQuiet /\ \E fd \in FormsRegister : RegisterStart(d, fd)
          \/ CheckPhoneFound(d)
          \/ CheckPhoneNull(d)
          \/ CheckIdFound(d)
          \/ CheckIdNull(d)
          \/ InsertOk(d)
          \/ InsertFail(d)
          \/ FormsQuiet /\ \E fd \in FormsLogin : LoginInvalid(d, fd)
          \/ FormsQuiet /\ \E fd \in FormsLogin : LoginStart(d, fd)
          \/ LoginNotFound(d)
          \/ LoginWrongPassword(d)
          \/ LoginOk(d)

SpecForms == InitForms /\ [][NextForms]_vars

(***************************************************************************)
(* SpecFetch: session A's fetchLeaderboard calls one by one (the call of   *)
(* checkSession, then pulls to refresh) while session B submits sales.     *)
(***************************************************************************)
InitFetch ==
    /\ users = SeedUsers
    /\ sales = {}
    /\ applied = [k \in Keys |-> 0]
    /\ SessionsInit
    /\ LaunchIdle
    /\ ChecksDone
    /\ ProfileIdle
    /\ fetches = [s \in Sessions |-> IF s = "A" THEN FirstFetch ELSE NoFetches]
    /\ PureIdle
    /\ AuthIdle

NextFetch ==
    \/ \E s \in {"A"} :
          \/ RefreshStart(s)
          \/ \E i \in 1..MaxFetches : FetchRead(s, i)
          \/ \E i \in 1..MaxFetches : FetchDeliver(s, i)
          \/ \E i \in 1..MaxFetches : FetchDeliverError(s, i)
    \/ \E s \in {"B"} :
          \/ OpenModal(s)
          \/ \E fd \in Forms : HandleSubmitStart(s, fd)
          \/ SelectOk(s)
          \/ UpsertOk(s)
          \/ FetchLeaderboardOk(s)

SpecFetch == InitFetch /\ [][NextFetch]_vars

(***************************************************************************)
(* SpecNulls: one admin session over a sales table in which u2's record of *)
(* the current month has no connections value; the app itself always       *)
(* writes a number, and the forms here never address that record.          *)
(***************************************************************************)
NullRow == [user_id |-> "u2", month_year |-> CurrentMonth, connections |-> NullConnections]

InitNulls ==
    /\ users = SeedUsers
    /\ \E t \in InitialSales : sales = t \cup {NullRow}
    /\ applied = [k \in Keys |-> IF k = <<"u2", CurrentMonth>> THEN 0
                                 ELSE Stored(k[1], k[2])]
    /\ SessionsInit
    /\ AppIdle
    /\ PureIdle
    /\ AuthIdle

NextNulls ==
    \E s \in {"A"} :
        \/ OpenModal(s)
        \/ ResetModal(s)
        \/ \E fd \in Forms : HandleSubmitStart(s, fd)
        \/ SelectOk(s)
        \/ UpsertOk(s)
        \/ OnRefresh(s)
        \/ FetchLeaderboardOk(s)
        \/ FetchLeaderboardFail(s)

SpecNulls == InitNulls /\ [][NextNulls]_vars

(***************************************************************************)
(* SpecJoin: one admin session over a table that holds u2's record of the  *)
(* current month; records of the previous month are submitted and u2's     *)
(* users row may be deleted at the backend.                                *)
(***************************************************************************)
InitJoin ==
    /\ users = SeedUsers
    /\ \E t \in InitialSales :
          sales = t \cup {[user_id |-> "u2", month_year |-> CurrentMonth, connections |-> 1]}
    /\ applied = [k \in Keys |-> Stored(k[1], k[2])]
    /\ SessionsInit
    /\ AppIdle
    /\ PureIdle
    /\ AuthIdle

NextJoin ==
    \E s \in {"A"} :
        \/ OpenModal(s)
        \/ \E fd \in Forms : HandleSubmitStart(s, fd)
        \/ SelectOk(s)
        \/ UpsertOk(s)
        \/ OnRefresh(s)
        \/ FetchLeaderboardOk(s)
        \/ FetchLeaderboardFail(s)
        \/ UserRemoved("u2")

SpecJoin == InitJoin /\ [][NextJoin]_vars

(***************************************************************************)
(* SpecShown: one admin session whose fetchLeaderboard calls are followed  *)
(* one by one: the call of checkSession, pulls to refresh and the call     *)
(* after each successful submission for u1 in the current month.  No call  *)
(* fails; every upsert and every fetch in flight is eventually answered.   *)
(***************************************************************************)
ShownForms == { Form("u1", <<"1">>, Today) }

NextShown ==
    \E s \in {"A"} :
        \/ OpenModal(s)
        \/ \E fd \in ShownForms :
              fetches[s].started < MaxFetches /\ HandleSubmitSend(s, fd)
        \/ SelectOk(s)
        \/ UpsertOkCalling(s)
        \/ RefreshStart(s)
        \/ \E i \in 1..MaxFetches : FetchRead(s, i)
        \/ \E i \in 1..MaxFetches : FetchDeliver(s, i)

SpecShown ==
    /\ InitFetch
    /\ [][NextShown]_vars
    /\ WF_vars(UpsertOkCalling("A"))
    /\ WF_vars(\E i \in 1..MaxFetches : FetchRead("A", i))
    /\ WF_vars(\E i \in 1..MaxFetches : FetchDeliver("A", i))

(***************************************************************************)
(* SpecNames: the two handlers that write a user's name.  Device D2        *)
(* registers with names of several lengths while u1, on the tabs of D1,    *)
(* saves names on the profile page.                                        *)
(***************************************************************************)
NamedForms ==
    { [AuthForm(NewId, NewPhone, Rep("z", 6)) EXCEPT !.name = n] :
         n \in { <<"D">>, <<" ", "D", "e", " ">>, Rep("n", 51) } }

NextNames ==
    \/ \E s \in {"A"} :
          \/ \E name \in ProfileNames : UpdateNameInvalid(s, name)
          \/ \E name \in ProfileNames : UpdateNameStart(s, name)
          \/ UpdateNameOk(s)
          \/ UpdateNameFail(s)
    \/ \E d \in {"D2"} :
          \/ \E fd \in NamedForms : RegisterInvalid(d, fd)
          \/ \E fd \in NamedForms : RegisterStart(d, fd)
          \/ CheckPhoneNull(d)
          \/ CheckIdNull(d)
          \/ InsertOk(d)
          \/ InsertFail(d)

SpecNames == InitForms /\ [][NextNames]_vars

(***************************************************************************)
(* SpecLogout: a visit of the tabs by a stored session, of an admin or of  *)
(* an agent, that may end by either logout control.  HomePage checks the   *)
(* session, the Profile tab is opened and loads the profile, and the user  *)
(* presses Logout in the tab layout or on the profile page.                *)
(***************************************************************************)
NextLogout ==
    \E s \in {"A"} :
        \/ CheckSessionGetItem(s)
        \/ CheckSessionThrows(s)
        \/ CheckSessionLookupFail(s)
        \/ CheckSessionOk(s)
        \/ FetchUsersOk(s)
        \/ FetchUsersFail(s)
        \/ FetchLeaderboardOk(s)
        \/ FetchLeaderboardFail(s)
        \/ OpenProfile(s)
        \/ LoadProfileGetItem(s)
        \/ LoadProfileNoUserId(s)
        \/ LoadProfileThrows(s)
        \/ LoadProfileLookupFail(s)
        \/ LoadProfileOk(s)
        \/ TabLogoutOk(s)
        \/ TabLogoutFail(s)
        \/ ProfileLogoutOk(s)
        \/ ProfileLogoutFail(s)

SpecLogout == InitTabs /\ [][NextLogout]_vars

(***************************************************************************)
(* SpecLogin: handleLogin on two devices.  A device signs in on the auth   *)
(* screen, may log out by the tab layout's control and sign in again; the  *)
(* row of u1 may be deleted at the backend at any time.                    *)
(***************************************************************************)
NextLogin ==
    \/ \E d \in Devices :
          \/ \E fd \in LoginForms : LoginInvalid(d, fd)
          \/ \E fd \in LoginForms : LoginStart(d, fd)
          \/ LoginNotFound(d)
          \/ LoginWrongPassword(d)
          \/ LoginOk(d)
          \/ LoginSetItemThrows(d)
    \/ \E s \in Sessions : TabLogoutOk(s)
    \/ UserRemoved("u1")

SpecLogin == InitAuth /\ [][NextLogin]_vars

(***************************************************************************)
(* SpecPasswords: handleChangePassword on the profile page of u1, pressed  *)
(* again and again with right and wrong current passwords and with new     *)
(* passwords that pass and that fail validatePasswordForm, between saves   *)
(* of the name; the row of u1 may be deleted at the backend.               *)
(***************************************************************************)
NextPasswords ==
    \/ \E s \in {"A"} :
          \/ \E pf \in PasswordForms : ChangePasswordInvalid(s, pf)
          \/ \E pf \in PasswordForms : ChangePasswordStart(s, pf)
          \/ ChangePasswordVerifyFail(s)
          \/ ChangePasswordWrong(s)
          \/ ChangePasswordVerified(s)
          \/ ChangePasswordOk(s)
          \/ ChangePasswordUpdateFail(s)
          \/ \E name \in FormsNames : UpdateNameInvalid(s, name)
          \/ \E name \in FormsNames : UpdateNameStart(s, name)
          \/ UpdateNameOk(s)
          \/ UpdateNameFail(s)
    \/ UserRemoved("u1")

SpecPasswords == InitForms /\ [][NextPasswords]_vars

(***************************************************************************)
(* SpecBusy: the five handlers, pressed with forms that pass validation,   *)
(* where every backend call that a handler awaits is answered: while a run *)
(* of handleSubmit, of handleRegister or handleLogin, or of                *)
(* handleUpdateName or handleChangePassword waits, one of the answers of   *)
(* its call arrives.                                                       *)
(***************************************************************************)
SubmitAnswered(s) ==
    SelectOk(s) \/ SelectFail(s) \/ UpsertOk(s) \/ UpsertFail(s)

AuthAnswered(d) ==
    \/ CheckPhoneFound(d) \/ CheckPhoneNull(d) \/ CheckIdFound(d) \/ CheckIdNull(d)
    \/ InsertOk(d) \/ InsertFail(d)
    \/ LoginNotFound(d) \/ LoginWrongPassword(d) \/ LoginOk(d) \/ LoginSetItemThrows(d)

ProfileAnswered(s) ==
    \/ UpdateNameOk(s) \/ UpdateNameFail(s)
    \/ ChangePasswordVerifyFail(s) \/ ChangePasswordWrong(s) \/ ChangePasswordVerified(s)
    \/ ChangePasswordOk(s) \/ ChangePasswordUpdateFail(s)

\* the forms pressed in this specification: each passes its validation, so
\* that every press sets the busy flag of its handler
BusySubmit == { Form("u2", <<"1">>, Today) }

BusyNames == { <<" ", "D", "e">> }

BusyPasswords ==
    { pf \in PasswordForms :
        /\ pf.currentPassword = User1.password
        /\ pf.newPassword = Rep("v", 6)
        /\ pf.confirmPassword = Rep("v", 6) }

BusyRegister ==
    { AuthForm(NewId, NewPhone, Rep("z", 6)),
      AuthForm(NewId, User1.phone_number, Rep("z", 6)),
      AuthForm(User1.id_number, NewPhone, Rep("z", 6)) }

BusyLogin == { LoginForm(User1.phone_number, User1.password) }

NextBusy ==
    \/ \E s \in {"A"} :
          \/ FormsQuiet /\ \E fd \in BusySubmit : HandleSubmitStart(s, fd)
          \/ SelectOk(s)
          \/ SelectFail(s)
          \/ UpsertOk(s)
          \/ UpsertFail(s)
          \/ FetchLeaderboardFail(s)
          \/ FormsQuiet /\ \E name \in BusyNames : UpdateNameStart(s, name)
          \/ UpdateNameOk(s)
          \/ UpdateNameFail(s)
          \/ FormsQuiet /\ \E pf \in BusyPasswords : ChangePasswordStart(s, pf)
          \/ ChangePasswordVerifyFail(s)
          \/ ChangePasswordWrong(s)
          \/ ChangePasswordVerified(s)
          \/ ChangePasswordOk(s)
          \/ ChangePasswordUpdateFail(s)
    \/ \E d \in {"D2"} :
          \/ FormsQuiet /\ \E fd \in BusyRegister : RegisterStart(d, fd)
          \/ CheckPhoneFound(d)
          \/ CheckPhoneNull(d)
          \/ CheckIdFound(d)
          \/ CheckIdNull(d)
          \/ InsertOk(d)
          \/ InsertFail(d)
          \/ FormsQuiet /\ \E fd \in BusyLogin : LoginStart(d, fd)
          \/ LoginNotFound(d)
          \/ LoginWrongPassword(d)
          \/ LoginOk(d)
          \/ LoginSetItemThrows(d)

SpecBusy ==
    /\ InitForms
    /\ [][NextBusy]_vars
    /\ WF_vars(SubmitAnswered("A"))
    /\ WF_vars(AuthAnswered("D2"))
    /\ WF_vars(ProfileAnswered("A"))

(***************************************************************************)
(* Properties.                                                             *)
(***************************************************************************)
IsPrefix(p, q) == Len(p) <= Len(q) /\ SubSeq(q, 1, Len(p)) = p

PathSuccess == <<"Idle", "Validating", "Submitting", "Success", "Refreshing", "Idle">>
PathFailure == <<"Idle", "Validating", "Submitting", "Failure", "Idle">>
PathInvalid == <<"Idle", "Validating", "Idle">>

AllIdle == \A s \in Sessions : pc[s] = "idle"

\* C1 (SpecSeq): submissions run one after another with every backend call
\* succeeding; once the last has completed, the stored connections of every
\* (user_id, month_year) equals the sum of the deltas submitted for it, an
\* absent record counting as 0.
C1_SumOfDeltas ==
    AllIdle => \A k \in Keys : Stored(k[1], k[2]) = applied[k]

\* both sessions have completed a submission and u1's record of the current
\* month holds the sum 2 of what was submitted
C1_TwoSubmissionsSummed ==
    /\ \A s \in Sessions : pc[s] = "idle" /\ path[s] = PathSuccess
    /\ Stored("u1", CurrentMonth) = 2
    /\ applied[<<"u1", CurrentMonth>>] = 2

\* C2 (Spec): when a session's upsert succeeds after another session, which had
\* read the same existing total, has written a positive delta in between (both
\* read before either upserted), the stored connections afterwards is smaller
\* than that total plus both deltas.
C2_LostUpdate ==
    [][\A s \in Sessions :
          (pc[s] = "upsert" /\ pc'[s] = "idle" /\ path'[s] = PathSuccess
           /\ req[s].missed > 0)
          => StoredIn(sales', req[s].user_id, req[s].month_year)
                < req[s].currentConnections + req[s].missed + req[s].newConnections]_vars

\* both sessions' submissions succeeded and a key holds less than the sum of
\* the deltas written for it
C2_IncrementLost ==
    /\ \A s \in Sessions : pc[s] = "idle" /\ path[s] = PathSuccess
    /\ \E k \in Keys : Stored(k[1], k[2]) < applied[k]

\* C3 (Spec): the stored connections of every key is a non-negative integer
\* and no step of any session makes it smaller.
C3_NeverDecreases ==
    [][\A k \in Keys :
          /\ StoredIn(sales', k[1], k[2]) >= 0
          /\ StoredIn(sales', k[1], k[2]) >= StoredIn(sales, k[1], k[2])]_vars

\* C4 (Spec): the sales table changes only in the step in which a session's
\* upsert succeeds, and then by exactly one upsert of the total that session
\* read plus its delta; a submission that ends in failure changes nothing.
C4_AllOrNothing ==
    [][/\ sales' # sales =>
            \E s \in Sessions :
               /\ pc[s] = "upsert"
               /\ path'[s] = PathSuccess
               /\ sales' = Upsert(sales,
                      [user_id |-> req[s].user_id, month_year |-> req[s].month_year,
                       connections |-> req[s].currentConnections
                                         + req[s].newConnections])
       /\ \A s \in Sessions :
             (pc[s] # "idle" /\ path'[s] = PathFailure) => sales' = sales]_vars

\* a submission has failed with an error notification while u1's record of the
\* current month stands at the total written before
C4_FailedUnchanged ==
    \E s \in Sessions :
       /\ pc[s] = "idle"
       /\ path[s] = PathFailure
       /\ toast[s] = "sales_error"
       /\ Stored("u1", CurrentMonth) = 1
       /\ applied[<<"u1", CurrentMonth>>] = 1

C6_RanksByPosition ==
    rankedData # <<>> =>
       /\ Len(rankedData) = Len(data)
       /\ \A i \in 1..Len(data) :
             /\ rankedData[i].rank = i
             /\ rankedData[i].user_id = data[i].user_id
       /\ {rankedData[i].rank : i \in 1..Len(rankedData)} = 1..Len(data)

\* connections [30, 30, 10] ranked [1, 2, 3]
C6_TieGetsConsecutiveRanks ==
    /\ Len(rankedData) = 3
    /\ [i \in 1..3 |-> rankedData[i].connections] = <<30, 30, 10>>
    /\ [i \in 1..3 |-> rankedData[i].rank] = <<1, 2, 3>>

\* C7 (SpecPure): the zone colour of a connections value is red below 5,
\* yellow from 5 to 10, orange from 11 to 15, light green from 16 to 20 and
\* dark green above 20.
C7_ZoneBands ==
    zoneOut # "" =>
       zoneOut = CASE zoneIn \in 0..4 -> "#EF4444"
                   [] zoneIn \in 5..10 -> "#F59E0B"
                   [] zoneIn \in 11..15 -> "#F97316"
                   [] zoneIn \in 16..20 -> "#10B981"
                   [] OTHER -> "#059669"

\* 20, an upper boundary, classified light green
C7_BoundaryClassified == zoneIn = 20 /\ zoneOut = "#10B981"

\* C8 (SpecSession): a fetchLeaderboard whose select succeeds while the current
\* month has no sales rows leaves an empty leaderboard and shows no
\* notification.
C8_EmptyIsNotAnError ==
    [][\A s \in Sessions :
          (lbInFlight'[s] < lbInFlight[s] /\ lbResult'[s] = "ok" /\ CurrentRows = {})
          => (leaderboard'[s] = <<>> /\ toast'[s] = toast[s])]_vars

\* a fetch has succeeded with no row of the current month: the leaderboard is
\* empty, loading has ended and no notification was ever shown
C8_EmptyShown ==
    \E s \in Sessions :
       /\ lbResult[s] = "ok"
       /\ lbInFlight[s] = 0
       /\ CurrentRows = {}
       /\ leaderboard[s] = <<>>
       /\ ~loading[s]
       /\ toast[s] = "none"

\* C9 (SpecAuth): a handleRegister called with a phone number or an ID number
\* that a users row already holds never sends the insert.
C9_ConflictNoInsert ==
    \A d \in Devices : authReq[d].existed => authPc[d] # "insert"

\* C10 (SpecAuth): no two users rows share a phone_number or an id_number.
C10_UniquePhoneAndId ==
    \A u, v \in users :
       u # v => (u.phone_number # v.phone_number /\ u.id_number # v.id_number)

\* '+254' followed by exactly 9 digits of which the first is 1 or 7
KenyanPhone(p) ==
    /\ Len(p) = 13
    /\ SubSeq(p, 1, 4) = <<"+", "2", "5", "4">>
    /\ p[5] \in {"1", "7"}
    /\ \A i \in 6..13 : p[i] \in {"0", "1", "2", "3", "4", "5", "6", "7", "8", "9"}

\* C11 (SpecPhone): the phone field always holds '+254' and at most 9 digits;
\* every phone_number handleRegister checks or inserts and every one handleLogin
\* looks up is '+254' followed by exactly 9 digits starting with 1 or 7, and so
\* is every row of users; a press with a phone field not of that form leaves
\* the handler idle (no backend call) and puts a message on the phone field.
C11_PhoneWellFormed ==
    /\ [](/\ \A d \in Devices :
               /\ startsWith(authFormData[d].phoneNumber, <<"+", "2", "5", "4">>)
               /\ Len(authFormData[d].phoneNumber) <= 13
               /\ authPc[d] \in {"checkPhone", "checkId", "insert", "loginSelect"}
                     => KenyanPhone(authReq[d].fullPhoneNumber)
          /\ \A u \in users : KenyanPhone(u.phone_number))
    /\ [][\A d \in Devices :
             (authPc[d] = "idle" /\ ~KenyanPhone(authFormData'[d].phoneNumber))
             => /\ authPc'[d] = "idle"
                /\ authErrors'[d] # authErrors[d]
                      => "phoneNumber" \in authErrors'[d].fields]_vars

\* a registration has inserted the number that was pasted with a separator,
\* cut at 13 characters and completed with one more key
C11_TypedPhoneInserted ==
    \E u \in users :
       /\ u.id = "n1"
       /\ u.phone_number = <<"+", "2", "5", "4", "7", "7", "7", "7", "7", "7", "7", "7", "7">>
       /\ route["D1"] = "(tabs)"

\* C12 (SpecTabs): the step in which HomePage's checkSession or ProfilePage's
\* loadUserProfile ends without a valid session (no stored userId, a lookup
\* that fails or finds no user, or a throw) leaves the device on the auth
\* screen with neither userId nor userName in the session store.
C12_ExpiredSessionCleared ==
    [][\A s \in Sessions :
          (\/ /\ homeCheck[s].pc \in {"getItem", "lookup"}
              /\ homeCheck'[s].pc = "done"
              /\ homeCheck'[s].result # "ok"
           \/ /\ profPc[s] \in {"getItem", "lookup"}
              /\ profPc'[s] = "idle"
              /\ profReq'[s].result # "ok")
          => /\ route'[DeviceOf(s)] = "auth"
             /\ storage'[DeviceOf(s)].userId = ""
             /\ storage'[DeviceOf(s)].userName = <<>>]_vars

\* C13 (SpecLaunch): RootLayout's initialRoute is the tabs exactly when a run of
\* the launch's checkSession had its lookup return the user; the navigator is
\* first rendered on auth or on the tabs, on the tabs only if a userId is
\* stored and a lookup of it returned the user without error, and on auth
\* whenever no lookup did (no stored id, no such user, a lookup error, a throw).
C13_TabsOnlyForValidSession ==
    /\ [](\A d \in Devices :
             initialRoute[d] = "(tabs)" <=> \E r \in Runs : rootRun[d][r].result = "user")
    /\ [][\A d \in Devices :
             (route[d] = "splash" /\ route'[d] # "splash")
             => /\ route'[d] \in {"auth", "(tabs)"}
                /\ route'[d] = "(tabs)"
                      => /\ storage[d].userId # ""
                         /\ \E r \in Runs : rootRun'[d][r].result = "user"
                /\ (\A r \in Runs : rootRun'[d][r].result
                                       \in {"none", "noId", "noUser", "error", "threw"})
                      => route'[d] = "auth"]_vars

\* the app is launched with u1's session stored: the first run's lookup
\* returned u1 and the navigator is on the tabs
C13_ValidSessionOpensTabs ==
    /\ rootRun["D1"][1].result = "user"
    /\ rootRun["D1"][1].userId = "u1"
    /\ storage["D1"].userId = "u1"
    /\ loaded["D1"]
    /\ route["D1"] = "(tabs)"

\* C17 (SpecLaunch), for the session lookup of the launch: the step in which
\* the lookup of a run of RootLayout's checkSession fails writes a log entry or
\* shows a notification (a toast or a message of the auth screen).
C17_FailuresReported ==
    [][\A d \in Devices : \A r \in Runs :
          (rootRun[d][r].pc = "lookup" /\ rootRun'[d][r].result = "error")
          => \/ rootRun'[d][r].logged
             \/ toast'[SessionOf(d)] # toast[SessionOf(d)]
             \/ authErrors'[d] # authErrors[d]]_vars

\* C14 (SpecForms): a handler of a validated form (handleSubmit,
\* handleRegister, handleLogin, handleUpdateName, handleChangePassword) waits
\* for the backend only with a form that passed its validation; and the step
\* in which an idle handler puts field messages on its form sets exactly the
\* messages of the validation, sends no backend call, changes neither table,
\* leaves the session store and the route alone, shows no notification and
\* does not set the handler's busy flag.
C14_ValidationIsLocal ==
    /\ [](/\ \A s \in Sessions :
               /\ pc[s] # "idle" => validateFormErrors(formData[s]) = {}
               /\ profPc[s] = "updateName" => validateNameErrors(profForm[s]) = {}
               /\ profPc[s] \in {"verify", "pwUpdate"}
                     => validatePasswordErrors(profForm[s]) = {}
          /\ \A d \in Devices :
               /\ authPc[d] \in {"checkPhone", "checkId", "insert"}
                     => validateAuthErrors(authFormData[d], FALSE) = {}
               /\ authPc[d] = "loginSelect"
                     => validateAuthErrors(authFormData[d], TRUE) = {})
    /\ [][LET Local == /\ users' = users
                       /\ sales' = sales
                       /\ storage' = storage
                       /\ route' = route
                       /\ toast' = toast
                       /\ lbInFlight' = lbInFlight
                       /\ pc' = pc /\ profPc' = profPc /\ authPc' = authPc
                       /\ \A s \in Sessions : ~submitting'[s] /\ ~updating'[s]
                       /\ \A d \in Devices : ~authLoading'[d]
          IN /\ \A s \in Sessions :
                   (/\ pc[s] = "idle"
                    /\ formErrors'[s] # {}
                    /\ <<formData'[s], formErrors'[s]>> # <<formData[s], formErrors[s]>>)
                   => /\ formErrors'[s] = validateFormErrors(formData'[s])
                      /\ Local
             /\ \A s \in Sessions :
                   (/\ profPc[s] = "idle"
                    /\ profErrors'[s] # {}
                    /\ <<profForm'[s], profErrors'[s]>> # <<profForm[s], profErrors[s]>>)
                   => /\ profErrors'[s] \in {validateNameErrors(profForm'[s]),
                                             validatePasswordErrors(profForm'[s])}
                      /\ Local
             /\ \A d \in Devices :
                   (/\ authPc[d] = "idle"
                    /\ authErrors'[d].fields # {}
                    /\ <<authFormData'[d], authErrors'[d]>>
                          # <<authFormData[d], authErrors[d]>>)
                   => /\ authErrors'[d].fields
                            \in {validateAuthErrors(authFormData'[d], FALSE),
                                 validateAuthErrors(authFormData'[d], TRUE)}
                      /\ Local]_vars

\* the sales form, the password form and the registration form have each
\* been refused by their validation, and nothing has reached the backend
C14_ThreeFormsRefused ==
    /\ "user_id" \in formErrors["A"]
    /\ "newPassword" \in profErrors["A"]
    /\ "idNumber" \in authErrors["D2"].fields
    /\ pc["A"] = "idle" /\ profPc["A"] = "idle" /\ authPc["D2"] = "idle"
    /\ ~submitting["A"] /\ ~updating["A"] /\ ~authLoading["D2"]
    /\ users = SeedUsers
    /\ sales = {}
    /\ storage["D2"] = NoSession

C16_UnknownUserRefused ==
    [][\A s \in Sessions :
          (/\ pc[s] # "idle"
           /\ pc'[s] = "idle"
           /\ ~\E u \in users : u.id = req[s].user_id)
          => /\ sales' = sales
             /\ path'[s] = PathFailure
             /\ toast'[s] = "sales_error"]_vars

\* C18 (SpecTabs): the Add Sales form is open, and a submission is in flight,
\* only in a session whose isAdmin is set; isAdmin is set only after the
\* session check found the row of the stored id with is_admin true; and the
\* sales table changes only in the step in which the upsert of such a
\* session is answered, by that upsert's row.
C18_OnlyAdminsWriteSales ==
    /\ [](\A s \in Sessions :
             /\ (modalVisible[s] \/ pc[s] # "idle") => isAdmin[s]
             /\ isAdmin[s] => /\ homeCheck[s].result = "ok"
                              /\ \E u \in users : /\ u.id = homeCheck[s].userId
                                                  /\ u.is_admin = TRUE)
    /\ [][sales' # sales =>
             \E s \in Sessions :
                /\ isAdmin[s]
                /\ pc[s] = "upsert"
                /\ pc'[s] = "idle"
                /\ sales' = Upsert(sales, UpsertRow(req[s]))]_vars

\* the admin u1, checked by HomePage, has written u2's record of the month
C18_AdminWroteRecord ==
    /\ storage["D1"].userId = "u1"
    /\ homeCheck["A"].result = "ok"
    /\ isAdmin["A"]
    /\ path["A"] = PathSuccess
    /\ Stored("u2", CurrentMonth) = 1

\* C19 (SpecFetch): once every fetchLeaderboard call a session started has
\* completed, two or more were started and the one started last succeeded,
\* the displayed leaderboard is the ranking of the rows that call returned.
C19_NewerFetchDisplayed ==
    \A s \in Sessions :
       (/\ fetches[s].started >= 2
        /\ fetches[s].inFlight = <<>>
        /\ fetches[s].newest.n = fetches[s].started
        /\ fetches[s].newest.ok)
       => leaderboard[s] = RankedData(fetches[s].newest.data)

\* C20 (SpecNulls): of any two entries of a displayed leaderboard the one
\* with the smaller rank has connections greater than or equal to the
\* other's, an entry whose record holds no connections counting as 0.
C20_OrderedByConnections ==
    \A s \in Sessions :
       \A i, j \in 1..Len(leaderboard[s]) :
          leaderboard[s][i].rank < leaderboard[s][j].rank
          => leaderboard[s][i].connections >= leaderboard[s][j].connections

\* C21 (SpecJoin): in the step in which a fetchLeaderboard succeeds, every
\* sales row of the current month whose user_id is the id of a users row has
\* exactly one entry in the new leaderboard, with that row's connections, and
\* every entry is the entry of such a row: rows of other months and rows whose
\* user is in no users row have none.
C21_EntriesAreCurrentRows ==
    [][\A s \in Sessions :
          (lbInFlight'[s] < lbInFlight[s] /\ lbResult'[s] = "ok")
          => LET Joined == {r \in sales : /\ r.month_year = CurrentMonth
                                          /\ \E u \in users : u.id = r.user_id}
                 lb == leaderboard'[s]
             IN /\ Len(lb) = Cardinality(Joined)
                /\ \A r \in Joined :
                      Cardinality({i \in 1..Len(lb) : lb[i].user_id = r.user_id}) = 1
                /\ \A i \in 1..Len(lb) :
                      \E r \in Joined : /\ r.user_id = lb[i].user_id
                                        /\ r.connections = lb[i].connections]_vars

\* the leaderboard shows u1 alone while the table also holds u2's record of
\* the current month, whose users row is gone, and a record of the previous month
C21_OnlyResolvedCurrentShown ==
    /\ lbResult["A"] = "ok"
    /\ lbInFlight["A"] = 0
    /\ Len(leaderboard["A"]) = 1
    /\ leaderboard["A"][1].user_id = "u1"
    /\ \E r \in sales : r.user_id = "u2" /\ r.month_year = CurrentMonth
    /\ \E r \in sales : r.month_year = PrevMonth
    /\ ~\E u \in users : u.id = "u2"
    /\ CurrentRows = {r \in sales : r.user_id = "u1" /\ r.month_year = CurrentMonth}

\* C22 (SpecJoin): the step in which a handleSubmit succeeds leaves the users
\* table as it was and leaves every sales row as it was except the one keyed
\* by the form's user_id and the year-month of the form's date (as
\* toISOString gives it), of which there is exactly one afterwards.
C22_OnlyTheKeyedRecord ==
    [][\A s \in Sessions :
          (pc[s] = "upsert" /\ pc'[s] = "idle" /\ path'[s] = PathSuccess)
          => LET u == formData[s].user_id
                 m == formData[s].date.utc
                 Others(tbl) == {r \in tbl : ~(r.user_id = u /\ r.month_year = m)}
             IN /\ users' = users
                /\ Others(sales') = Others(sales)
                /\ Cardinality(sales' \ Others(sales')) = 1]_vars

\* a record of the previous month was written for u2 while u2's record of the
\* current month and the users table stand as they were
C22_OtherMonthUntouched ==
    /\ path["A"] = PathSuccess
    /\ pc["A"] = "idle"
    /\ Stored("u2", PrevMonth) = 1
    /\ Stored("u2", CurrentMonth) = 1
    /\ users = SeedUsers

\* C23 (SpecSession): the step in which a fetchLeaderboard fails leaves the
\* displayed leaderboard as it was, shows the leaderboard error notification
\* and leaves loading and refreshing both false.
C23_FailedFetchKeepsList ==
    [][\A s \in Sessions :
          (lbInFlight'[s] < lbInFlight[s] /\ lbResult'[s] = "error")
          => /\ leaderboard'[s] = leaderboard[s]
             /\ toast'[s] = "leaderboard_error"
             /\ ~loading'[s]
             /\ ~refreshing'[s]]_vars

\* a pull to refresh has failed over a list that showed u1: the list still
\* shows u1, the error notification is up and neither flag is set
C23_ListKeptAfterFailure ==
    /\ lbResult["A"] = "error"
    /\ lbInFlight["A"] = 0
    /\ Len(leaderboard["A"]) = 1
    /\ leaderboard["A"][1].user_id = "u1"
    /\ toast["A"] = "leaderboard_error"
    /\ ~loading["A"]
    /\ ~refreshing["A"]

\* C24 (SpecShown): whenever a handleSubmit for u1 in the current month is
\* waiting for its upsert, which will leave the total T, then later the
\* displayed leaderboard has an entry of u1 with T connections, or a further
\* submission has been started; whatever fetches are in flight meanwhile.
C24_SubmittedTotalShown ==
    \A T \in 0..(MaxTotal + 1) :
       (/\ pc["A"] = "upsert"
        /\ req["A"].user_id = "u1"
        /\ req["A"].month_year = CurrentMonth
        /\ updatedConnections(req["A"]) = T)
       ~> (\/ \E i \in 1..Len(leaderboard["A"]) :
                 /\ leaderboard["A"][i].user_id = "u1"
                 /\ leaderboard["A"][i].connections = T
           \/ pc["A"] = "select")

\* the submission has succeeded and its own fetch has shown u1's new total
\* while a fetch started before the submission is still in flight
C24_ShownWithOlderInFlight ==
    /\ path["A"] = PathSuccess
    /\ pc["A"] = "idle"
    /\ Len(leaderboard["A"]) = 1
    /\ leaderboard["A"][1].user_id = "u1"
    /\ leaderboard["A"][1].connections = Stored("u1", CurrentMonth)
    /\ applied[<<"u1", CurrentMonth>>] = Stored("u1", CurrentMonth)
    /\ Len(fetches["A"].inFlight) = 1
    /\ fetches["A"].inFlight[1].n < fetches["A"].newest.n

\* C25 (SpecNames): the name of every users row has no leading or trailing
\* space and between 2 and 50 characters.
C25_NamesTrimmedInRange ==
    \A u \in users :
       /\ u.name = trim(u.name)
       /\ Len(u.name) >= 2
       /\ Len(u.name) <= 50

\* C26 (SpecLogout): in the step in which a logout by either control
\* succeeds (TabLayout.handleLogout or the confirmed ProfilePage.handleLogout),
\* the session store of the device afterwards holds neither userId nor
\* userName and the device is on the auth screen.
C26_LogoutClearsSession ==
    [][\A s \in Sessions :
          (TabLogoutOk(s) \/ ProfileLogoutOk(s))
             => /\ storage'[DeviceOf(s)].userId = ""
                /\ storage'[DeviceOf(s)].userName = <<>>
                /\ route'[DeviceOf(s)] = "auth"]_vars

\* a run of handleLogin on d ends in this step
LoginEnds(d) ==
    \/ \E fd \in LoginForms : LoginInvalid(d, fd)
    \/ authPc[d] = "loginSelect" /\ authPc'[d] = "idle"

\* C27 (SpecLogin): a step of handleLogin writes the session store or
\* navigates to the tabs only if some user has the entered phone number and
\* the entered password, and then userId and userName of that user are stored
\* and the route is the tabs; every other end of a run leaves the session
\* store unchanged and shows a general error.
C27_LoginOnlyWithPassword ==
    [][\A d \in Devices :
          LoginEnds(d) =>
             \/ \E u \in users :
                   /\ u.phone_number = authFormData[d].phoneNumber
                   /\ u.password = authFormData[d].password
                   /\ storage'[d] = SessionFor(u)
                   /\ route'[d] = "(tabs)"
             \/ /\ storage'[d] = storage[d]
                /\ route'[d] = route[d]
                /\ authErrors'[d].general # ""]_vars

\* C28 (SpecPasswords): handleChangePassword sends its update only from a
\* read that returned the entered current password, and a user's stored
\* password changes only in the step of such an update, to a new password
\* that has at least 6 characters, equals its confirmation and differs from
\* the entered current password; no other step changes a stored password.
C28_PasswordChangeGuarded ==
    [][/\ \A s \in Sessions :
             (profPc'[s] = "pwUpdate" /\ profPc[s] # "pwUpdate")
                => /\ profPc[s] = "verify"
                   /\ profReq'[s].currentPassword = profForm[s].currentPassword
                   /\ \E u \in users : /\ u.id = profReq[s].userId
                                       /\ u.password = profForm[s].currentPassword
       /\ \A u \in users : \A v \in users' :
             (v.id = u.id /\ v.password # u.password)
                => \E s \in Sessions :
                      /\ profPc[s] = "pwUpdate"
                      /\ profReq[s].userId = u.id
                      /\ v.password = profForm[s].newPassword
                      /\ Len(v.password) >= 6
                      /\ v.password = profForm[s].confirmPassword
                      /\ v.password # profForm[s].currentPassword]_vars

\* u1's password has been changed and a run with the old one was refused
C28_PasswordChanged ==
    /\ \E u \in users : u.id = "u1" /\ u.password = Rep("v", 6)
    /\ profReq["A"].result = "wrong"

\* C29 (SpecForms): every row that a step adds to the users table has
\* is_admin = false, and no step of registration, login, name update,
\* password change or sales submission changes the is_admin of a row that
\* was there before.
C29_AdminFlagFixed ==
    [][\A v \in users' :
          IF \E u \in users : u.id = v.id
          THEN \E u \in users : u.id = v.id /\ u.is_admin = v.is_admin
          ELSE v.is_admin = FALSE]_vars

\* a user has registered, and the admin u1 has changed name and password
C29_RegisteredAndEdited ==
    /\ \E u \in users : u.id = NewUserIds[1] /\ ~u.is_admin
    /\ \E u \in users : /\ u.id = "u1"
                        /\ u.is_admin
                        /\ u.name # User1.name
                        /\ u.password # User1.password
    /\ sales # {}

\* C30 (SpecBusy): whenever a run of handleSubmit, handleRegister,
\* handleLogin, handleUpdateName or handleChangePassword has set its busy
\* flag (submitting, loading, updating), the flag is false again at some
\* later moment, whichever way the run ends.
C30_BusyFlagsReset ==
    /\ \A s \in Sessions : submitting[s] ~> ~submitting[s]
    /\ \A d \in Devices : authLoading[d] ~> ~authLoading[d]
    /\ \A s \in Sessions : updating[s] ~> ~updating[s]

\* a run of handleChangePassword has ended at the early return of a wrong
\* current password, and one of handleRegister at the early return of a
\* registered phone number, with their busy flags reset
C30_EarlyReturnReset ==
    /\ profReq["A"].result = "wrong"
    /\ ~updating["A"]
    /\ authErrors["D2"].general = "Phone number already registered. Please login instead."
    /\ ~authLoading["D2"]

====
